---- MODULE Spec2Model ----
(***************************************************************************)
(* Model of the IPTV addon core (src/addon.js) and of the Xtream provider  *)
(* (src/src/js/providers/xtreamProvider.js): the build cache of            *)
(* createAddon, the data cache tiers of loadFromCache / saveToCache, the   *)
(* refresh logic of updateData and one ingestion run of fetchData.         *)
(*                                                                         *)
(* Node.js runs one callback at a time: everything between two awaits on   *)
(* external I/O (HTTP fetch, Redis) is one atomic step here.  An await on  *)
(* an already-computed value only defers to the microtask queue; no I/O    *)
(* completion or request handler can run in between, so such awaits are    *)
(* folded into the step that follows them.                                 *)
(*                                                                         *)
(* Time is in milliseconds, as in the source.  md5 digests are modelled by *)
(* the text they hash (injective, i.e. "up to hash collision").            *)
(***************************************************************************)
EXTENDS Integers, Sequences, FiniteSets, TLC

(***************************************************************************)
(* Bounds of the model                                                     *)
(***************************************************************************)
MaxCalls == 2      \* createAddon calls made in one behaviour
MaxAddons == 2     \* builds started in one behaviour
MaxRuns == 3       \* updateData calls made in one behaviour
MaxTicks == 1      \* times the clock advances in one behaviour

None == "none"

(***************************************************************************)
(* Program constants                                                       *)
(***************************************************************************)
\* src/addon.js:42  CACHE_TTL_MS default
CACHE_TTL_MS == 6 * 3600 * 1000
\* src/addon.js:43  MAX_CACHE_ENTRIES (environment setting, default '300';
\* here the process is configured with room for one catalog less than the
\* accounts that the clients use)
MAX_CACHE_ENTRIES == 1
\* src/addon.js:92  this.updateInterval
updateInterval == 3600000
\* src/addon.js:423  the "recent minor interval"
MinorInterval == 900000
\* Date.now() when the process starts; any instant later than every interval
StartClock == 24 * 3600 * 1000
\* the amounts by which the clock advances between two steps: a minute
\* more than the cache TTL
Delays == {CACHE_TTL_MS + 60000}

(***************************************************************************)
(* Generic helpers                                                         *)
(***************************************************************************)
Range(s) == {s[i] : i \in DOMAIN s}

\* Array.prototype.map
Map(s, F(_)) == [i \in DOMAIN s |-> F(s[i])]

\* remove the element at index i
RemoveAt(s, i) == SubSeq(s, 1, i - 1) \o SubSeq(s, i + 1, Len(s))

(***************************************************************************)
(* Configurations the clients send                                         *)
(***************************************************************************)
Config(provider, user, pw, series, epg) ==
    [provider |-> provider, useXtream |-> TRUE, xtreamUrl |-> "http://x",
     xtreamUsername |-> user, xtreamPassword |-> pw, xtreamUseM3U |-> FALSE,
     xtreamOutput |-> None, m3uUrl |-> None, epgUrl |-> None,
     enableEpg |-> epg, epgOffsetHours |-> 0, includeSeries |-> series]

\* an account with series and without EPG, the same account sent without
\* `provider` (None is undefined), the same account with another password,
\* and an account with EPG and without series
Configs ==
    { Config("xtream", "alice", "pw1", TRUE, FALSE),
      Config(None, "alice", "pw1", TRUE, FALSE),
      Config("xtream", "alice", "pw2", TRUE, FALSE),
      Config("xtream", "bob", "pw3", FALSE, TRUE) }

\* createCacheKey: the md5 of the stable stringification of `minimal`
createCacheKey(config) ==
    [provider |-> config.provider,
     m3uUrl |-> config.m3uUrl,
     epgUrl |-> config.epgUrl,
     enableEpg |-> config.enableEpg,
     xtreamUrl |-> config.xtreamUrl,
     xtreamUsername |-> config.xtreamUsername,
     xtreamUseM3U |-> config.xtreamUseM3U,
     xtreamOutput |-> config.xtreamOutput,
     epgOffsetHours |-> config.epgOffsetHours,
     includeSeries |-> config.includeSeries]

\* M3UEPGAddon constructor, lines 85-87: the provider defaults from useXtream
\* (the caller's config object itself is changed)
withProvider(config) ==
    IF config.provider = None
    THEN [config EXCEPT !.provider = IF config.useXtream THEN "xtream" ELSE "direct"]
    ELSE config

Fingerprints == {createCacheKey(c) : c \in Configs \cup {withProvider(c) : c \in Configs}}

(***************************************************************************)
(* Text.  A string of the program is a sequence of words (the text with    *)
(* single spaces between them); the empty string "" is <<>>, which is      *)
(* falsy in JavaScript like any absent (undefined / null) value.           *)
(***************************************************************************)
Falsy(text) == text = <<>>

\* String.prototype.toUpperCase on one word of the vocabulary
Upper(w) == IF w = "hd" THEN "HD" ELSE IF w = "fhd" THEN "FHD" ELSE w

\* the words w with /\b(4K|UHD|FHD|1080P|HD|720P|SD)\b/i matching all of w
CleanWords == {"4K", "UHD", "FHD", "1080P", "HD", "720P", "SD"}

RECURSIVE cleanName(_)
\* cleanName: remove every match of
\* /\b(4K|UHD|FHD|FULL\s*HD|1080P|HD|720P|SD)\b/ig, collapse runs of
\* whitespace and trim
cleanName(name) ==
    IF name = <<>> THEN <<>>
    ELSE IF Upper(name[1]) = "FULLHD" THEN cleanName(Tail(name))
    ELSE IF /\ Upper(name[1]) = "FULL"
            /\ Len(name) >= 2
            /\ Upper(name[2]) = "HD" THEN cleanName(Tail(Tail(name)))
    ELSE IF Upper(name[1]) \in CleanWords THEN cleanName(Tail(name))
    ELSE <<name[1]>> \o cleanName(Tail(name))

\* the words of the vocabulary whose upper case contains the given text
Has4K(w) == Upper(w) \in {"4K", "UHD"}
HasFHD(w) == Upper(w) \in {"FHD", "FULLHD", "1080", "1080P"}
HasHD(w) == Upper(w) \in {"HD", "UHD", "FHD", "FULLHD", "HDTV", "720", "720P"}
StartsHD(w) == Upper(w) \in {"HD", "HDTV"}
EndsFULL(w) == Upper(w) \in {"FULL"}

\* detectQuality: the first of /(4K|UHD)/, /(FHD|FULL\s*HD|1080)/, /(HD|720)/
\* found anywhere in the upper-cased name
detectQuality(name) ==
    IF \E i \in DOMAIN name : Has4K(name[i]) THEN "4K"
    ELSE IF \/ \E i \in DOMAIN name : HasFHD(name[i])
            \/ \E i \in 1..(Len(name) - 1) :
                  EndsFULL(name[i]) /\ StartsHD(name[i + 1]) THEN "FHD"
    ELSE IF \E i \in DOMAIN name : HasHD(name[i]) THEN "HD"
    ELSE "SD"

\* the `order` table of qualitySort; `?? 9` for any other value
QualityOrder(q) ==
    CASE q = "4K" -> 0 [] q = "FHD" -> 1 [] q = "HD" -> 2 [] q = "SD" -> 3
      [] OTHER -> 9

\* a comparator that puts the later of two variants of one tier first
qualitySortLatestFirst(a, b) ==
    IF QualityOrder(a.quality) = QualityOrder(b.quality)
    THEN b.stream_id - a.stream_id
    ELSE QualityOrder(a.quality) - QualityOrder(b.quality)

\* qualitySort: the comparator handed to Array.prototype.sort
qualitySort(a, b) == QualityOrder(a.quality) - QualityOrder(b.quality)

\* Array.prototype.sort(cmp): a stable sort (V8 since Node 11).  For a
\* comparator that is a total preorder the result is the one permutation
\* that puts s[i] after every element that compares less, and after every
\* equal element that came before it.
Sort(s, Cmp(_, _)) ==
    LET rank(i) == 1 + Cardinality({j \in DOMAIN s :
                        \/ Cmp(s[j], s[i]) < 0
                        \/ Cmp(s[j], s[i]) = 0 /\ j < i})
    IN [k \in DOMAIN s |-> s[CHOOSE i \in DOMAIN s : rank(i) = k]]

\* a hash that gives every text the same digits
cryptoHashFlat(text) == <<"md5", <<>>>>

\* cryptoHash: 12 hex digits of the md5 of the text
cryptoHash(text) == <<"md5", text>>

(***************************************************************************)
(* What the Xtream server can answer.  A response to fetch() is            *)
(*   kind "reject"  - fetch() rejected (network error, timeout)            *)
(*   kind "notok"   - a response whose .ok is false                        *)
(*   kind "badbody" - .ok, but .json() throws on the body                  *)
(*   kind "body"    - .ok with the parsed body: a JSON array (isArray) of  *)
(*                    items, or some other JSON value                      *)
(***************************************************************************)
Reject == [kind |-> "reject", isArray |-> FALSE, items |-> <<>>]
NotOk == [kind |-> "notok", isArray |-> FALSE, items |-> <<>>]
BadBody == [kind |-> "badbody", isArray |-> FALSE, items |-> <<>>]
NotArray == [kind |-> "body", isArray |-> FALSE, items |-> <<>>]
Body(items) == [kind |-> "body", isArray |-> TRUE, items |-> items]

LiveStream(id, name, epg, catId, catName) ==
    [stream_id |-> id, name |-> name, epg_channel_id |-> epg,
     category_id |-> catId, category_name |-> catName,
     stream_icon |-> <<"icon", id>>]

\* get_live_streams: two variants of one channel and a channel without an
\* EPG id and without a category name
LiveList ==
    << LiveStream(1, <<"BBC", "HD">>, <<"bbc">>, <<"1">>, <<"News">>),
       LiveStream(2, <<"BBC", "4K">>, <<"bbc">>, <<"1">>, <<>>),
       LiveStream(3, <<"CNN">>, <<>>, <<"2">>, <<>>) >>

VodStream(id, name, catId, catName) ==
    [stream_id |-> id, name |-> name, category_id |-> catId,
     category_name |-> catName, stream_icon |-> <<"icon", id>>,
     plot |-> <<"plot", id>>, container_extension |-> "mp4", releasedate |-> 0]

\* get_vod_streams
VodList == << VodStream(7, <<"Heat">>, <<"5">>, <<>>) >>

\* get_live_categories / get_vod_categories / get_series_categories
Category(id, name) == [category_id |-> id, category_name |-> name]
LiveCategories == << Category(<<"1">>, <<"UK">>), Category(<<"2">>, <<"US">>) >>
VodCategories == << Category(<<"5">>, <<"Action">>) >>
SeriesCategories == << Category(<<"9">>, <<"Drama">>) >>

\* get_series
SeriesList ==
    << [series_id |-> 4, name |-> <<"Lost">>, cover |-> <<"cover", 4>>,
        plot |-> <<"plot", 4>>, category_id |-> <<"9">>,
        category_name |-> <<>>] >>

\* xmltv.php: the text of the guide, well-formed XML or not
Programme(ch, start, stop, title) ==
    [channel |-> ch, start |-> start, stop |-> stop, title |-> title,
     desc |-> <<>>]
EpgText ==
    [wellFormed |-> TRUE,
     programme |-> << Programme(<<"bbc">>, 1100, 1300, <<"News">>),
                      Programme(<<"bbc">>, 1300, 1400, <<>>) >>]
EpgGarbage == [wellFormed |-> FALSE, programme |-> <<>>]

CoreResponses(list) == {Reject, NotOk, BadBody, NotArray, Body(list)}
AuxResponses(list) == {Reject, NotOk, BadBody, NotArray, Body(list)}
EpgResponses ==
    {[kind |-> "reject", text |-> EpgGarbage],
     [kind |-> "notok", text |-> EpgGarbage],
     [kind |-> "body", text |-> EpgGarbage],
     [kind |-> "body", text |-> EpgText]}

(***************************************************************************)
(* xtreamProvider.fetchData, JSON API mode: the computations               *)
(***************************************************************************)
\* lines 88-109: the id -> name map of a categories response; {} when the
\* fetch was caught (null), the response is not ok, or its body is no
\* array of categories.  The map is the list of its entries; lookup takes
\* the last entry of an id.
catMap(resp) ==
    IF resp.kind = "body" /\ resp.isArray
    THEN LET ok(c) == ~Falsy(c.category_id) /\ ~Falsy(c.category_name)
             keep[i \in 0..Len(resp.items)] ==
                 IF i = 0 THEN <<>>
                 ELSE IF ok(resp.items[i]) THEN Append(keep[i - 1], resp.items[i])
                 ELSE keep[i - 1]
         IN keep[Len(resp.items)]
    ELSE <<>>

\* map[id], <<>> (undefined) when the map has no such id
catLookup(map, id) ==
    LET hits == {i \in DOMAIN map : map[i].category_id = id}
    IN IF hits = {} THEN <<>>
       ELSE map[CHOOSE i \in hits : \A j \in hits : j <= i].category_name

\* a || b || c || d
Or4(a, b, c, d) ==
    IF ~Falsy(a) THEN a ELSE IF ~Falsy(b) THEN b ELSE IF ~Falsy(c) THEN c ELSE d

liveUrl(config, s) ==
    <<config.xtreamUrl, "live", config.xtreamUsername, config.xtreamPassword,
      s.stream_id, "m3u8">>

\* lines 112-141: the groupMap fold.  The Map is the list of its entries
\* [key, ch] in insertion order.
groupMap(config, live, liveCatMap) ==
    LET fold[i \in 0..Len(live)] ==
          IF i = 0 THEN <<>>
          ELSE
            LET groups == fold[i - 1]
                s == live[i]
                cat == Or4(catLookup(liveCatMap, s.category_id), s.category_name,
                           s.category_id, <<"Live">>)
                baseName == cleanName(s.name)
                quality == detectQuality(s.name)
                key == IF ~Falsy(s.epg_channel_id) THEN s.epg_channel_id
                       ELSE baseName
                fresh == [key |-> key,
                          ch |-> [id |-> <<"iptv_live", cryptoHash(key)>>,
                                  name |-> baseName,
                                  type |-> "tv",
                                  logo |-> s.stream_icon,
                                  category |-> cat,
                                  epg_channel_id |-> s.epg_channel_id,
                                  attributes |->
                                      [tvg_logo |-> s.stream_icon,
                                       tvg_id |-> s.epg_channel_id,
                                       group_title |-> cat],
                                  streams |-> <<>>,
                                  url |-> <<>>]]
                with == IF \E g \in DOMAIN groups : groups[g].key = key
                        THEN groups ELSE Append(groups, fresh)
                at == CHOOSE g \in DOMAIN with : with[g].key = key
                stream == [quality |-> quality, url |-> liveUrl(config, s),
                           stream_id |-> s.stream_id]
            IN [with EXCEPT ![at].ch.streams = Append(@, stream)]
    IN fold[Len(live)]

\* channels that show the icon of the record folded in last
liveChannelsLastWins(config, live, liveCatMap) ==
    LET groups == groupMap(config, live, liveCatMap)
        finish(g) ==
            LET sorted == Sort(g.ch.streams, qualitySort)
                last == g.ch.streams[Len(g.ch.streams)]
            IN [g.ch EXCEPT !.streams = sorted,
                            !.url = IF sorted = <<>> THEN <<>> ELSE sorted[1].url,
                            !.logo = <<"icon", last.stream_id>>]
    IN Map(groups, finish)

\* lines 143-148: sort each channel's streams and set its default url
\* (ch.streams[0]?.url)
liveChannels(config, live, liveCatMap) ==
    LET groups == groupMap(config, live, liveCatMap)
        finish(g) ==
            LET sorted == Sort(g.ch.streams, qualitySort)
            IN [g.ch EXCEPT !.streams = sorted,
                            !.url = IF sorted = <<>> THEN <<>> ELSE sorted[1].url]
    IN Map(groups, finish)

\* lines 151-168
vodMovies(config, vod, vodCatMap) ==
    LET movie(s) ==
          LET cat == Or4(catLookup(vodCatMap, s.category_id), s.category_name,
                         <<>>, <<"Movies">>)
          IN [id |-> <<"iptv_vod", s.stream_id>>,
              name |-> s.name,
              type |-> "movie",
              url |-> <<config.xtreamUrl, "movie", config.xtreamUsername,
                        config.xtreamPassword, s.stream_id,
                        s.container_extension>>,
              poster |-> s.stream_icon,
              plot |-> s.plot,
              year |-> s.releasedate,
              category |-> cat,
              attributes |-> [tvg_logo |-> s.stream_icon, group_title |-> cat,
                              plot |-> s.plot]]
    IN Map(vod, movie)

\* lines 192-208
seriesItems(seriesList, seriesCatMap) ==
    LET item(s) ==
          LET cat == Or4(catLookup(seriesCatMap, s.category_id), s.category_name,
                         <<>>, <<"Series">>)
          IN [id |-> <<"iptv_series", s.series_id>>,
              series_id |-> s.series_id,
              name |-> s.name,
              type |-> "series",
              poster |-> s.cover,
              plot |-> s.plot,
              category |-> cat,
              attributes |-> [tvg_logo |-> s.cover, group_title |-> cat,
                              plot |-> s.plot]]
    IN Map(seriesList, item)

\* M3UEPGAddon.parseEPG: the programmes of the guide grouped by channel, in
\* the order of the feed; {} when the text does not parse.  The object is
\* the list of its entries [channel, programmes] in insertion order.
parseEPG(content) ==
    IF ~content.wellFormed THEN <<>>
    ELSE
      LET progs == content.programme
          fold[i \in 0..Len(progs)] ==
            IF i = 0 THEN <<>>
            ELSE
              LET epgData == fold[i - 1]
                  prog == progs[i]
                  with == IF \E e \in DOMAIN epgData :
                                epgData[e].channel = prog.channel
                          THEN epgData
                          ELSE Append(epgData, [channel |-> prog.channel,
                                                programmes |-> <<>>])
                  at == CHOOSE e \in DOMAIN with : with[e].channel = prog.channel
                  entry == [start |-> prog.start, stop |-> prog.stop,
                            title |-> IF Falsy(prog.title) THEN <<"Unknown">>
                                      ELSE prog.title,
                            desc |-> prog.desc]
              IN [with EXCEPT ![at].programmes = Append(@, entry)]
      IN fold[Len(progs)]

(***************************************************************************)
(* M3UEPGAddon.parseM3U (addon.js).  The playlist is the list of its       *)
(* entries: the #EXTINF line of each, already split by the regular         *)
(* expression of line 175 and by parseAttributes, and the url line after   *)
(* it: [attributes: [tvg_id, tvg_name, tvg_logo, group_title], name, url]. *)
(***************************************************************************)
\* String.prototype.toLowerCase on one word of the vocabulary
Lower(w) ==
    CASE w = "BBC" -> "bbc" [] w = "BBC.uk" -> "bbc.uk" [] w = "CNN" -> "cnn"
      [] w = "One" -> "one" [] w = "News" -> "news" [] w = "Movies" -> "movies"
      [] w = "Series" -> "series" [] w = "Heat" -> "heat" [] w = "Season" -> "season"
      [] w = "4K" -> "4k" [] w = "UHD" -> "uhd" [] w = "FHD" -> "fhd"
      [] w = "HD" -> "hd" [] w = "SD" -> "sd"
      [] w = "FULL" -> "full" [] w = "1080P" -> "1080p" [] w = "720P" -> "720p"
      [] OTHER -> w

\* a normalize that tells no identifier from another
normalizeFlat(v) == IF v = <<>> THEN <<>> ELSE <<"id">>

\* normalize, lines 169-170: trim and lower case
normalize(v) == [i \in DOMAIN v |-> Lower(v[i])]

\* the words that /\b(4K|UHD|FHD|HD|SD)\b/i matches, lines 221 and 226
TierWords == {"4k", "uhd", "fhd", "hd", "sd"}

\* lines 221-223: the tier of the first match in the name, 'SD' without one
m3uQuality(name) ==
    LET hits == {i \in DOMAIN name : Lower(name[i]) \in TierWords}
    IN IF hits = {} THEN "SD"
       ELSE LET w == Lower(name[CHOOSE i \in hits : \A j \in hits : i <= j])
            IN CASE w = "4k" -> "4K" [] w = "uhd" -> "4K" [] w = "fhd" -> "FHD"
                 [] w = "hd" -> "HD" [] OTHER -> "SD"

\* lines 225-228: the name without the tier words
m3uBaseName(name) ==
    LET keep[i \in 0..Len(name)] ==
          IF i = 0 THEN <<>>
          ELSE IF Lower(name[i]) \in TierWords THEN keep[i - 1]
          ELSE Append(keep[i - 1], name[i])
    IN keep[Len(name)]

\* isMovieFormat, lines 299-302: /\(\d{4}\)/ matches the name
isMovieFormat(name) == \E i \in DOMAIN name : name[i] \in {"(1995)", "(2001)"}

\* lines 206-216: the type of an entry
m3uType(name, groupTitleNorm) ==
    LET isMovie == \/ \E i \in DOMAIN groupTitleNorm :
                         groupTitleNorm[i] \in {"movie", "movies"}
                   \/ isMovieFormat(name)
        isSeries == /\ ~isMovie
                    /\ \/ \E i \in DOMAIN groupTitleNorm : groupTitleNorm[i] = "series"
                       \/ \E i \in DOMAIN name : name[i] \in {"S01E02", "s01e02"}
                       \/ \E i \in DOMAIN name :
                             \/ Lower(name[i]) \in {"season1", "season2"}
                             \/ /\ Lower(name[i]) = "season"
                                /\ i < Len(name)
                                /\ name[i + 1] \in {"1", "2"}
    IN IF isSeries THEN "series" ELSE IF isMovie THEN "movie" ELSE "tv"

\* the `order` table of line 259; `|| 0` for any other value
M3UOrder(q) ==
    CASE q = "4K" -> 4 [] q = "FHD" -> 3 [] q = "HD" -> 2 [] q = "SD" -> 1
      [] OTHER -> 0

\* the comparator of line 260
m3uSort(a, b) == M3UOrder(b.quality) - M3UOrder(a.quality)

\* parseM3U, lines 162-285: the items it returns, first the movies, the
\* series and the channels without an identifier in the order of the
\* playlist, then the merged channels in the order of channelGroups.  An
\* item pushed at line 270 has no streams field: its streams is <<>> here,
\* which the handlers take in the same way (item.streams && .length).
parseM3U(entries) ==
    LET fold[i \in 0..Len(entries)] ==
          IF i = 0 THEN [items |-> <<>>, channelGroups |-> <<>>]
          ELSE
            LET acc == fold[i - 1]
                e == entries[i]
                rawTvgId == IF ~Falsy(e.attributes.tvg_id) THEN e.attributes.tvg_id
                            ELSE e.attributes.tvg_name
                normalizedTvgId == normalize(rawTvgId)
                groupTitleRaw == e.attributes.group_title
                type == m3uType(e.name, normalize(groupTitleRaw))
            IN IF type = "tv" /\ ~Falsy(normalizedTvgId)
               THEN
                 LET quality == m3uQuality(e.name)
                     baseName == m3uBaseName(e.name)
                     key == normalizedTvgId
                     groups == acc.channelGroups
                     fresh == [key |-> key,
                               ch |-> [id |-> <<"iptv", <<"md5", key>>>>,
                                       name |-> baseName,
                                       type |-> "tv",
                                       logo |-> e.attributes.tvg_logo,
                                       category |-> groupTitleRaw,
                                       epg_channel_id |-> normalizedTvgId,
                                       attributes |->
                                           [e.attributes EXCEPT
                                              !.tvg_id = normalizedTvgId,
                                              !.group_title = groupTitleRaw],
                                       streams |-> <<>>,
                                       url |-> <<>>]]
                     with == IF \E g \in DOMAIN groups : groups[g].key = key
                             THEN groups ELSE Append(groups, fresh)
                     at == CHOOSE g \in DOMAIN with : with[g].key = key
                     stream == [quality |-> quality, url |-> e.url,
                                title |-> <<baseName, quality>>]
                     sorted == Sort(Append(with[at].ch.streams, stream), m3uSort)
                 IN [acc EXCEPT
                       !.channelGroups =
                          [with EXCEPT ![at].ch.streams = sorted,
                                       ![at].ch.url = sorted[1].url]]
               ELSE
                 [acc EXCEPT
                    !.items = Append(@,
                       [id |-> <<"iptv", <<"md5", e.name, e.url>>>>,
                        name |-> e.name,
                        type |-> type,
                        logo |-> e.attributes.tvg_logo,
                        category |-> groupTitleRaw,
                        epg_channel_id |-> normalizedTvgId,
                        attributes |-> e.attributes,
                        streams |-> <<>>,
                        url |-> e.url])]
        end == fold[Len(entries)]
    IN end.items \o [g \in DOMAIN end.channelGroups |-> end.channelGroups[g].ch]

(***************************************************************************)
(* An addon instance (class M3UEPGAddon) and the steps of a refresh on it. *)
(* Each operator is the code between two awaits on I/O, as a function of   *)
(* the instance and of what the I/O answered.                              *)
(***************************************************************************)
\* constructor, lines 84-113
newAddon(config) ==
    [config |-> withProvider(config),
     cacheKey |-> createCacheKey(withProvider(config)),
     channels |-> <<>>, movies |-> <<>>, series |-> <<>>, epgData |-> <<>>,
     lastUpdate |-> 0]

\* what the catalog, stream and meta handlers read of an instance
snapshot(inst) ==
    [channels |-> inst.channels, movies |-> inst.movies,
     series |-> inst.series, epgData |-> inst.epgData]

\* the entry saveToCache stores, lines 150-156
cacheEntry(inst) ==
    [channels |-> inst.channels, movies |-> inst.movies,
     series |-> inst.series, epgData |-> inst.epgData,
     lastUpdate |-> inst.lastUpdate]

\* loadFromCache, lines 131-137: take over a cached entry
restore(inst, cached) ==
    [inst EXCEPT !.channels = cached.channels, !.movies = cached.movies,
                 !.series = cached.series, !.epgData = cached.epgData,
                 !.lastUpdate = cached.lastUpdate]

\* an updateData whose interval checks do not look at `force`
skipUpdateForced(inst, force, now, cacheOn) ==
    /\ cacheOn
    /\ \/ inst.lastUpdate # 0 /\ now - inst.lastUpdate < updateInterval
       \/ /\ Len(inst.channels) # 0 \/ Len(inst.movies) # 0 \/ Len(inst.series) # 0
          /\ now - inst.lastUpdate < MinorInterval

\* updateData, lines 418-427: TRUE when the refresh is skipped
skipUpdate(inst, force, now, cacheOn) ==
    /\ ~force
    /\ cacheOn
    /\ \/ inst.lastUpdate # 0 /\ now - inst.lastUpdate < updateInterval
       \/ /\ Len(inst.channels) # 0 \/ Len(inst.movies) # 0 \/ Len(inst.series) # 0
          /\ now - inst.lastUpdate < MinorInterval

\* fetchData, lines 18-20
credentialsIncomplete(config) ==
    \/ config.xtreamUrl = ""
    \/ config.xtreamUsername = ""
    \/ config.xtreamPassword = ""

\* a fetchData that resets lastUpdate with the lists
blankAll(inst) ==
    [inst EXCEPT !.channels = <<>>,
                 !.movies = <<>>,
                 !.series = IF inst.config.includeSeries # FALSE THEN <<>> ELSE @,
                 !.epgData = <<>>,
                 !.lastUpdate = 0]

\* fetchData, lines 22-25
blank(inst) ==
    [inst EXCEPT !.channels = <<>>,
                 !.movies = <<>>,
                 !.series = IF inst.config.includeSeries # FALSE THEN <<>> ELSE @,
                 !.epgData = <<>>]

\* a fetchData without the check of vodResp.ok
coreThrowsLax(liveResp, vodResp) ==
    \/ liveResp.kind = "reject"
    \/ vodResp.kind = "reject"
    \/ liveResp.kind = "notok"
    \/ liveResp.kind = "badbody"
    \/ vodResp.kind = "badbody"

\* fetchData, lines 75-86: TRUE when the core requests make the run throw:
\* Promise.all rejects, a response is not ok, or .json() throws
coreThrows(liveResp, vodResp) ==
    \/ liveResp.kind = "reject"
    \/ vodResp.kind = "reject"
    \/ liveResp.kind = "notok"
    \/ vodResp.kind = "notok"
    \/ liveResp.kind = "badbody"
    \/ vodResp.kind = "badbody"

\* Array.isArray(x) ? x : []
arrayOf(resp) == IF resp.isArray THEN resp.items ELSE <<>>

\* fetchData, lines 88-168: channels and movies from the core answers
applyCore(inst, liveResp, vodResp, liveCatsResp, vodCatsResp) ==
    [inst EXCEPT
       !.channels = liveChannels(inst.config, arrayOf(liveResp), catMap(liveCatsResp)),
       !.movies = vodMovies(inst.config, arrayOf(vodResp), catMap(vodCatsResp))]

\* fetchData, lines 171-212: the series step; every failure in it is caught
applySeries(inst, seriesResp, seriesCatsResp) ==
    IF seriesResp.kind = "body" /\ seriesResp.isArray
    THEN [inst EXCEPT !.series = seriesItems(seriesResp.items, catMap(seriesCatsResp))]
    ELSE inst

\* fetchData, lines 216-228: the EPG step; every failure in it is caught
applyEpg(inst, epgResp) ==
    IF epgResp.kind = "body"
    THEN [inst EXCEPT !.epgData = parseEPG(epgResp.text)]
    ELSE inst

\* where fetchData goes after the core step and after the series step:
\* the next await, or "return"
afterCore(config) ==
    IF config.includeSeries # FALSE THEN "series"
    ELSE IF config.enableEpg THEN "epg" ELSE "return"
afterSeries(config) == IF config.enableEpg THEN "epg" ELSE "return"

(***************************************************************************)
(* The caches.  dataCache is an LRUCache({max, ttl}) from ./lruCache: its  *)
(* entries [key, value, at], least recently used first.  The shared store  *)
(* is Redis: its entries [key, raw, at], each expiring PX = ttl after it   *)
(* was set.                                                                *)
(***************************************************************************)
Miss == [hit |-> FALSE,
         value |-> [channels |-> <<>>, movies |-> <<>>, series |-> <<>>,
                    epgData |-> <<>>, lastUpdate |-> 0]]
Hit(value) == [hit |-> TRUE, value |-> value]

without(cache, key) ==
    LET keep[i \in 0..Len(cache)] ==
          IF i = 0 THEN <<>>
          ELSE IF cache[i].key = key THEN keep[i - 1]
          ELSE Append(keep[i - 1], cache[i])
    IN keep[Len(cache)]

\* dataCache.get(key): the value of an entry not older than the ttl, which
\* becomes the most recently used; an entry older than the ttl is dropped
lruGet(cache, key, now) ==
    IF \E i \in DOMAIN cache : cache[i].key = key
    THEN LET e == cache[CHOOSE i \in DOMAIN cache : cache[i].key = key]
         IN IF now - e.at > CACHE_TTL_MS
            THEN [got |-> Miss, cache |-> without(cache, key)]
            ELSE [got |-> Hit(e.value), cache |-> Append(without(cache, key), e)]
    ELSE [got |-> Miss, cache |-> cache]

\* dataCache.set(key, value): the entry becomes the most recently used;
\* over max entries the least recently used one is evicted
lruSet(cache, key, value, now) ==
    LET put == Append(without(cache, key), [key |-> key, value |-> value, at |-> now])
    IN IF Len(put) > MAX_CACHE_ENTRIES THEN Tail(put) ELSE put

\* JSON.stringify / JSON.parse of a cache entry; any other text does not parse
stringify(value) == [json |-> TRUE, value |-> value]
Garbage == [json |-> FALSE, value |-> Miss.value]

\* what a GET of the shared store can answer: an error, nil, or a text
RedisThrow == [kind |-> "throw", raw |-> Garbage]
RedisNil == [kind |-> "nil", raw |-> Garbage]
RedisText(raw) == [kind |-> "text", raw |-> raw]

\* redisGetJSON, lines 48-55, with redisClient set: the parsed entry, or
\* null when the GET fails, finds nothing, or the text does not parse; the
\* function itself never throws
redisGetJSON(answer) ==
    [threw |-> FALSE,
     got |-> IF answer.kind = "text" /\ answer.raw.json
             THEN Hit(answer.raw.value) ELSE Miss]

\* a redisSetJSON without the try/catch
redisSetJSONThrowing(store, key, value, now, answer) ==
    [threw |-> answer = "throw",
     store |-> IF answer = "ok"
               THEN Append(without(store, key),
                           [key |-> key, raw |-> stringify(value), at |-> now])
               ELSE store]

\* redisSetJSON, lines 56-61, with redisClient set: the store after the SET
\* answered "ok" or "throw"; the function itself never throws
redisSetJSON(store, key, value, now, answer) ==
    [threw |-> FALSE,
     store |-> IF answer = "ok"
               THEN Append(without(store, key),
                           [key |-> key, raw |-> stringify(value), at |-> now])
               ELSE store]

\* the live entries of the shared store
liveEntries(store, key, now) ==
    {store[i].raw : i \in {j \in DOMAIN store :
                              store[j].key = key /\ now - store[j].at < CACHE_TTL_MS}}

(***************************************************************************)
(* buildPromiseCache: a Map from the fingerprint to the build promise,     *)
(* here the number of the addon that the build makes (0: no entry)         *)
(***************************************************************************)
\* a createAddon that never reuses a build promise
reusableNever(cache, cacheKey, cacheOn) == FALSE

\* createAddon, line 676: is the build promise of the fingerprint reused?
reusable(cache, cacheKey, cacheOn) == cacheOn /\ cache[cacheKey] # 0

\* a createAddon that does not store the build promise
rememberNothing(cache, cacheKey, a, cacheOn) == cache

\* createAddon, line 912: the Map after the build promise was made
remember(cache, cacheKey, a, cacheOn) ==
    IF cacheOn THEN [cache EXCEPT ![cacheKey] = a] ELSE cache

\* a finally block that deletes the entry
settledCleared(cache, cacheKey) == [cache EXCEPT ![cacheKey] = 0]

\* createAddon, lines 913-918: the Map after the build promise has settled:
\* the finally block is empty ("Keep promise cached")
settled(cache, cacheKey) == cache

(***************************************************************************)
(* State                                                                   *)
(***************************************************************************)
VARIABLES
    cacheEnabled,       \* CACHE_ENABLED (addon.js:41), set from the environment
    redisClient,        \* TRUE when redisClient is not null (addon.js:10-25)
    clock,              \* Date.now()
    ticks,              \* how often the clock has advanced
    buildPromiseCache,  \* fingerprint -> the addon whose build it maps to, or 0
    dataCache,          \* the LRUCache
    redis,              \* the shared store
    addons,             \* the builds started: [cacheKey, inst, pc, loaded]
                        \*   cacheKey: the fingerprint createAddon computed
                        \*   inst: the M3UEPGAddon instance
                        \*   pc: "redisGet" loadFromCache awaits redisGetJSON
                        \*       "updating" updateData(true) is running
                        \*       "built"    the build promise is resolved
                        \*       "rejected" the build promise is rejected
                        \*   loaded: what loadFromCache found: "off" (cache
                        \*       disabled), "local", "redis", "nothing", or
                        \*       "failed" (the GET threw or gave no JSON)
    calls,              \* the createAddon calls made: [config, promise, at,
                        \*   found]: the build promise returned, the time of
                        \*   the call, and the state of the promise then:
                        \*   "new", "pending" or "settled"
    started,            \* how many updateData calls have been made
    runs,               \* the updateData runs that have not returned
    finished,           \* the updateData run that returned last
    fd,                 \* one ingestion run looked at by itself (SpecFetch)
    mg,                 \* the merger run on one list of live records, and
                        \*   again on a second list (SpecMerge)
    et,                 \* an instance made with some epgOffsetHours and a
                        \*   programme time it parsed (SpecTime)
    gd,                 \* an instance with a guide, and what it answered
                        \*   when asked for programmes (SpecGuide)
    sr,                 \* an instance with a catalog, and what it answered
                        \*   when asked for the streams of an id (SpecStream)
    pl,                 \* parseM3U reading the lines of a playlist
                        \*   (SpecLines)
    nm                  \* a display name, its tier and its cleaned name
                        \*   (SpecName)

vars == <<cacheEnabled, redisClient, clock, ticks, buildPromiseCache, dataCache,
          redis, addons, calls, started, runs, finished, fd, mg, et,
          gd, sr, pl, nm>>

\* A run of updateData: the instance it works on, its arguments and locals,
\* the await it stands at, and what became of it
\*   pc       "core", "series", "epg" (awaits of fetchData), "redisSet" (the
\*            await in saveToCache) or "done" (returned)
\*   skipped  updateData returned at line 421 or 425
\*   fetched  fetchData returned
\*   saved    saveToCache returned
\*   caught   what the catch at line 441 caught: "none", "credentials",
\*            "core", "redis" or "genres"
\*   entry    the entry saveToCache built
\*   redis    what the SET of the shared store answered: "none" (not asked),
\*            "ok" or "throw"
\*   before   what the instance served when the run began
\*   solo     no other run on the instance was in flight since the run began
newRun(a, force, now, inst) ==
    [addon |-> a, force |-> force, now |-> now, pc |-> "done",
     skipped |-> FALSE, fetched |-> FALSE, saved |-> FALSE, caught |-> "none",
     entry |-> Miss.value, redis |-> "none", before |-> cacheEntry(inst),
     solo |-> TRUE]

\* before any run has returned
NoRun ==
    [newRun(0, FALSE, 0, newAddon(Config("xtream", "", "", TRUE, TRUE)))
       EXCEPT !.pc = "never"]

\* an ingestion run: pc "idle", an await of fetchData ("core", "series",
\* "epg"), "returned" or "threw"; the instance; and what the server
\* answered to each request ("unasked" before)
Unasked == [kind |-> "unasked", isArray |-> FALSE, items |-> <<>>]
Idle ==
    [pc |-> "idle", inst |-> newAddon(Config("xtream", "", "", TRUE, TRUE)),
     live |-> Unasked, vod |-> Unasked, liveCats |-> Unasked, vodCats |-> Unasked,
     series |-> Unasked, seriesCats |-> Unasked,
     epg |-> [kind |-> "unasked", text |-> EpgGarbage]]

\* before the merger has run: no pass was made on any feed
Unmerged ==
    [pc |-> "idle", edit |-> "none",
     feed |-> <<>>, m3u |-> <<>>, live |-> <<>>,
     feed2 |-> <<>>, m3u2 |-> <<>>, live2 |-> <<>>]

\* before the guide was asked, before an id was resolved, before a
\* playlist was read, before a name was looked at
Unlooked == [pc |-> "idle"]
Unresolved == [pc |-> "idle"]
Unread == [pc |-> "idle"]
Unnamed == [pc |-> "idle"]

\* before an instance was made and before it parsed a programme time
Unparsed ==
    [pc |-> "idle",
     given |-> [type |-> "undefined", value |-> "none", tenths |-> 0],
     epgOffsetHours |-> 0,
     text |-> [form |-> "empty", base |-> 0, tz |-> 0],
     isoAccepted |-> FALSE,
     time |-> [valid |-> FALSE, ms |-> 0]]

inFlight(run) == run.pc \in {"core", "series", "epg"}

\* a snapshot a former process has left in the shared store ten minutes
\* before this one started: the whole catalog of the first account
OldSnapshot ==
    LET c == Config("xtream", "alice", "pw1", TRUE, FALSE)
        i0 == blank(newAddon(c))
        i1 == applyCore(i0, Body(LiveList), Body(VodList), Body(LiveCategories),
                        Body(VodCategories))
        i3 == applySeries(i1, Body(SeriesList), Body(SeriesCategories))
    IN [key |-> i3.cacheKey,
        raw |-> stringify(cacheEntry([i3 EXCEPT !.lastUpdate = StartClock - 600000])),
        at |-> StartClock - 600000]

Init ==
    /\ cacheEnabled \in BOOLEAN
    /\ redisClient \in BOOLEAN
    /\ redisClient => cacheEnabled
    /\ clock = StartClock
    /\ ticks = 0
    /\ buildPromiseCache = [k \in Fingerprints |-> 0]
    /\ dataCache = <<>>
    /\ redis \in {<<>>, <<OldSnapshot>>}
    /\ redis # <<>> => redisClient
    /\ addons = <<>>
    /\ calls = <<>>
    /\ started = 0
    /\ runs = <<>>
    /\ finished = NoRun
    /\ fd = Idle
    /\ mg = Unmerged
    /\ et = Unparsed
    /\ gd = Unlooked
    /\ sr = Unresolved
    /\ pl = Unread
    /\ nm = Unnamed

(***************************************************************************)
(* updateData, the parts around fetchData                                  *)
(***************************************************************************)
\* an updateData that fetches only when it is forced
beginUpdateForcedOnly(a, inst, force, now, cacheOn) ==
    LET run == newRun(a, force, now, inst)
    IN IF ~force
       THEN [inst |-> inst, run |-> [run EXCEPT !.skipped = TRUE]]
       ELSE IF credentialsIncomplete(inst.config)
       THEN [inst |-> inst, run |-> [run EXCEPT !.caught = "credentials"]]
       ELSE [inst |-> blank(inst), run |-> [run EXCEPT !.pc = "core"]]

\* updateData(force) and fetchData up to the first await, lines 416-430 and
\* xtreamProvider lines 8-80: the instance and the run after it
beginUpdate(a, inst, force, now, cacheOn) ==
    LET run == newRun(a, force, now, inst)
    IN IF skipUpdate(inst, force, now, cacheOn)
       THEN [inst |-> inst, run |-> [run EXCEPT !.skipped = TRUE]]
       ELSE IF credentialsIncomplete(inst.config)
       THEN [inst |-> inst, run |-> [run EXCEPT !.caught = "credentials"]]
       ELSE [inst |-> blank(inst), run |-> [run EXCEPT !.pc = "core"]]

\* updateData after saveToCache returned, lines 434-443:
\* this.buildGenresInManifest is no method of the class, so the call throws
\* a TypeError, which the catch logs
endUpdate(run) == [run EXCEPT !.pc = "done", !.caught = "genres"]

\* updateData after fetchData returned, lines 432-433, and saveToCache up to
\* its await, lines 147-158: the instance, the run and the dataCache after
afterFetch(inst, run, now, cacheOn, redisOn, cache) ==
    LET inst2 == [inst EXCEPT !.lastUpdate = now]
        entry == cacheEntry(inst2)
        run2 == [run EXCEPT !.fetched = TRUE]
    IN IF ~cacheOn
       THEN [inst |-> inst2, run |-> endUpdate(run2), cache |-> cache]
       ELSE IF redisOn
       THEN [inst |-> inst2,
             run |-> [run2 EXCEPT !.pc = "redisSet", !.entry = entry],
             cache |-> lruSet(cache, inst2.cacheKey, entry, now)]
       ELSE [inst |-> inst2,
             run |-> endUpdate([run2 EXCEPT !.saved = TRUE, !.entry = entry]),
             cache |-> lruSet(cache, inst2.cacheKey, entry, now)]

\* an updateData that lets the error of a core feed through to the build
pcAfterSurfacing(pc, run) ==
    IF run.force /\ run.pc = "done"
    THEN IF run.caught = "core" THEN "rejected" ELSE "built"
    ELSE pc

\* the build of createAddon goes on when its updateData(true) has returned
\* (lines 685-909: it awaits nothing more) and resolves the build promise
pcAfter(pc, run) == IF run.force /\ run.pc = "done" THEN "built" ELSE pc

\* a run begins on an addon and changes the instance: no other run is
\* alone with that instance any more
crowd(run, by) ==
    IF run.addon = by.addon /\ by.pc # "done" THEN [run EXCEPT !.solo = FALSE]
    ELSE run

\* the runs after `run` began: one that has returned at once is not among them
joined(rs, run) ==
    IF run.pc = "done" THEN rs
    ELSE Append([i \in DOMAIN rs |-> crowd(rs[i], run)],
                [run EXCEPT !.solo = \A i \in DOMAIN rs :
                                        rs[i].addon = run.addon => ~inFlight(rs[i])])

\* the run that returned last, after `run` began
lastAfter(fin, run) == IF run.pc = "done" THEN run ELSE crowd(fin, run)

(***************************************************************************)
(* Actions                                                                 *)
(***************************************************************************)
isSettled(pc) == pc \in {"built", "rejected"}

\* the build promise cache after the build of addon a went from pc to pc2
cacheAfter(cache, cacheKey, pc, pc2) ==
    IF ~isSettled(pc) /\ isSettled(pc2) THEN settled(cache, cacheKey) ELSE cache

\* createAddon(config) up to its first await on I/O, lines 649-686 and 912:
\* reuse the build promise of the fingerprint, or start a build
CreateAddon(config) ==
    /\ Len(calls) < MaxCalls
    /\ LET cacheKey == createCacheKey(config)
       IN IF reusable(buildPromiseCache, cacheKey, cacheEnabled)
          THEN /\ calls' = Append(calls,
                    [config |-> config, promise |-> buildPromiseCache[cacheKey],
                     at |-> clock,
                     found |-> IF isSettled(addons[buildPromiseCache[cacheKey]].pc)
                               THEN "settled" ELSE "pending"])
               /\ UNCHANGED <<buildPromiseCache, dataCache, addons, started, runs,
                              finished>>
          ELSE
            /\ started < MaxRuns
            /\ Len(addons) < MaxAddons
            /\ LET a == Len(addons) + 1
                   inst == newAddon(config)
                   look == lruGet(dataCache, inst.cacheKey, clock)
                   loaded == IF cacheEnabled /\ look.got.hit
                             THEN restore(inst, look.got.value) ELSE inst
                   upd == beginUpdate(a, loaded, TRUE, clock, cacheEnabled)
                   pc2 == pcAfter("updating", upd.run)
                   kept == remember(buildPromiseCache, cacheKey, a, cacheEnabled)
               IN /\ calls' = Append(calls, [config |-> config, promise |-> a,
                                             at |-> clock, found |-> "new"])
                  /\ IF cacheEnabled /\ ~look.got.hit /\ redisClient
                     THEN /\ addons' = Append(addons,
                                 [cacheKey |-> cacheKey, inst |-> inst,
                                  pc |-> "redisGet", loaded |-> "nothing"])
                          /\ buildPromiseCache' = kept
                          /\ dataCache' = look.cache
                          /\ UNCHANGED <<started, runs, finished>>
                     ELSE /\ addons' = Append(addons,
                                 [cacheKey |-> cacheKey, inst |-> upd.inst, pc |-> pc2,
                                  loaded |-> IF ~cacheEnabled THEN "off"
                                             ELSE IF look.got.hit THEN "local"
                                             ELSE "nothing"])
                          /\ buildPromiseCache' =
                                cacheAfter(kept, cacheKey, "updating", pc2)
                          /\ dataCache' = IF cacheEnabled THEN look.cache ELSE dataCache
                          /\ started' = started + 1
                          /\ runs' = joined(runs, upd.run)
                          /\ finished' = lastAfter(finished, upd.run)
    /\ UNCHANGED <<fd, mg, et, gd, sr, pl, nm, cacheEnabled, redisClient, clock, ticks, redis>>

\* loadFromCache after redisGetJSON answered, lines 128-144, and the build
\* up to the first await of updateData(true)
RedisGetReturn(a, answer) ==
    /\ addons[a].pc = "redisGet"
    /\ started < MaxRuns
    /\ LET inst == addons[a].inst
           cached == redisGetJSON(answer)
       IN IF cached.threw
          THEN /\ addons' = [addons EXCEPT ![a].pc = "rejected", ![a].loaded = "failed"]
               /\ buildPromiseCache' =
                     cacheAfter(buildPromiseCache, addons[a].cacheKey, "redisGet",
                                "rejected")
               /\ UNCHANGED <<dataCache, started, runs, finished>>
          ELSE
            LET loaded == IF cached.got.hit THEN restore(inst, cached.got.value)
                          ELSE inst
                upd == beginUpdate(a, loaded, TRUE, clock, cacheEnabled)
                pc2 == pcAfter("updating", upd.run)
            IN /\ dataCache' =
                     IF cached.got.hit
                     THEN lruSet(dataCache, inst.cacheKey, cached.got.value, clock)
                     ELSE dataCache
               /\ addons' = [addons EXCEPT ![a].inst = upd.inst, ![a].pc = pc2,
                                ![a].loaded = IF cached.got.hit THEN "redis"
                                              ELSE IF answer.kind = "nil" THEN "nothing"
                                              ELSE "failed"]
               /\ buildPromiseCache' =
                     cacheAfter(buildPromiseCache, addons[a].cacheKey, "redisGet", pc2)
               /\ started' = started + 1
               /\ runs' = joined(runs, upd.run)
               /\ finished' = lastAfter(finished, upd.run)
    /\ UNCHANGED <<fd, mg, et, gd, sr, pl, nm, cacheEnabled, redisClient, clock, ticks, redis, calls>>

\* the catalog handler, lines 798-801: addonInstance.updateData() is started
\* and not awaited
CatalogRequest(a) ==
    /\ addons[a].pc = "built"
    /\ started < MaxRuns
    /\ LET upd == beginUpdate(a, addons[a].inst, FALSE, clock, cacheEnabled)
       IN /\ addons' = [addons EXCEPT ![a].inst = upd.inst]
          /\ started' = started + 1
          /\ runs' = joined(runs, upd.run)
          /\ finished' = lastAfter(finished, upd.run)
    /\ UNCHANGED <<fd, mg, et, gd, sr, pl, nm, cacheEnabled, redisClient, clock, ticks, buildPromiseCache,
                   dataCache, redis, calls>>

\* the state after run r went on to `run` with its instance now `inst`
Advance(r, inst, run) ==
    LET a == run.addon
        pc2 == pcAfter(addons[a].pc, run)
    IN /\ addons' = [addons EXCEPT ![a].inst = inst, ![a].pc = pc2]
       /\ buildPromiseCache' =
             cacheAfter(buildPromiseCache, addons[a].cacheKey, addons[a].pc, pc2)
       /\ IF run.pc = "done"
          THEN runs' = RemoveAt(runs, r) /\ finished' = run
          ELSE runs' = [runs EXCEPT ![r] = run] /\ UNCHANGED finished

\* fetchData returned in run r: the rest of updateData up to the next await
Returned(r, inst) ==
    LET aft == afterFetch(inst, runs[r], clock, cacheEnabled, redisClient, dataCache)
    IN /\ Advance(r, aft.inst, aft.run)
       /\ dataCache' = aft.cache

\* fetchData after the four core requests answered, lines 75-168
CoreReturn(r, liveResp, vodResp, liveCatsResp, vodCatsResp) ==
    /\ runs[r].pc = "core"
    /\ LET inst == addons[runs[r].addon].inst
       IN IF coreThrows(liveResp, vodResp)
          THEN /\ Advance(r, inst, [runs[r] EXCEPT !.pc = "done", !.caught = "core"])
               /\ UNCHANGED dataCache
          ELSE LET inst2 == applyCore(inst, liveResp, vodResp, liveCatsResp, vodCatsResp)
                   next == afterCore(inst.config)
               IN IF next = "return"
                  THEN Returned(r, inst2)
                  ELSE /\ Advance(r, inst2, [runs[r] EXCEPT !.pc = next])
                       /\ UNCHANGED dataCache
    /\ UNCHANGED <<fd, mg, et, gd, sr, pl, nm, cacheEnabled, redisClient, clock, ticks, redis, calls, started>>

\* fetchData after the two series requests answered, lines 173-212
SeriesReturn(r, seriesResp, seriesCatsResp) ==
    /\ runs[r].pc = "series"
    /\ LET inst == addons[runs[r].addon].inst
           inst2 == applySeries(inst, seriesResp, seriesCatsResp)
           next == afterSeries(inst.config)
       IN IF next = "return"
          THEN Returned(r, inst2)
          ELSE /\ Advance(r, inst2, [runs[r] EXCEPT !.pc = next])
               /\ UNCHANGED dataCache
    /\ UNCHANGED <<fd, mg, et, gd, sr, pl, nm, cacheEnabled, redisClient, clock, ticks, redis, calls, started>>

\* fetchData after the EPG request answered, lines 222-229
EpgReturn(r, epgResp) ==
    /\ runs[r].pc = "epg"
    /\ Returned(r, applyEpg(addons[runs[r].addon].inst, epgResp))
    /\ UNCHANGED <<fd, mg, et, gd, sr, pl, nm, cacheEnabled, redisClient, clock, ticks, redis, calls, started>>

\* saveToCache after redisSetJSON answered, lines 158-160, and the rest of
\* updateData
RedisSetReturn(r, answer) ==
    /\ runs[r].pc = "redisSet"
    /\ LET run == [runs[r] EXCEPT !.redis = answer]
           inst == addons[run.addon].inst
           set == redisSetJSON(redis, inst.cacheKey, run.entry, clock, answer)
       IN /\ redis' = set.store
          /\ Advance(r, inst,
                     IF set.threw
                     THEN [run EXCEPT !.pc = "done", !.caught = "redis"]
                     ELSE endUpdate([run EXCEPT !.saved = TRUE]))
    /\ UNCHANGED <<fd, mg, et, gd, sr, pl, nm, cacheEnabled, redisClient, clock, ticks, dataCache, calls,
                   started>>

\* time passes
Tick(d) ==
    /\ ticks < MaxTicks
    /\ clock' = clock + d
    /\ ticks' = ticks + 1
    /\ UNCHANGED <<fd, mg, et, gd, sr, pl, nm, cacheEnabled, redisClient, buildPromiseCache, dataCache, redis,
                   addons, calls, started, runs, finished>>

\* what a GET of the key can answer now
RedisGetAnswers(key) ==
    {RedisThrow, RedisNil} \cup
    UNION {{RedisText(raw), RedisText(Garbage)} : raw \in liveEntries(redis, key, clock)}

Next ==
    \/ \E config \in Configs : CreateAddon(config)
    \/ \E a \in DOMAIN addons :
          \E answer \in RedisGetAnswers(addons[a].inst.cacheKey) :
             RedisGetReturn(a, answer)
    \/ \E a \in DOMAIN addons : CatalogRequest(a)
    \/ \E r \in DOMAIN runs :
          \E liveResp \in {NotOk, Body(LiveList)}, vodResp \in {Reject, Body(VodList)} :
             CoreReturn(r, liveResp, vodResp, Body(LiveCategories), Body(VodCategories))
    \/ \E r \in DOMAIN runs :
          SeriesReturn(r, Body(SeriesList), Body(SeriesCategories))
    \/ \E r \in DOMAIN runs :
          EpgReturn(r, [kind |-> "body", text |-> EpgText])
    \/ \E r \in DOMAIN runs : \E answer \in {"ok", "throw"} : RedisSetReturn(r, answer)
    \/ \E d \in Delays : Tick(d)

Spec == Init /\ [][Next]_vars

(***************************************************************************)
(* One ingestion run by itself: xtreamProvider.fetchData on a fresh        *)
(* instance, against a server that may fail every request in every way.    *)
(* The steps are the operators the refresh above is made of.               *)
(***************************************************************************)
\* the configurations of a run: with and without series and EPG, and one
\* with the password missing
FetchConfigs ==
    {Config("xtream", "alice", "pw1", s, e) : s \in BOOLEAN, e \in BOOLEAN}
    \cup {Config("xtream", "carol", "", TRUE, FALSE)}

\* what an ingestion run by itself leaves alone
others == <<cacheEnabled, redisClient, clock, ticks, buildPromiseCache, dataCache,
            redis, addons, calls, started, runs, finished>>

\* fetchData up to its first await, lines 8-80
FetchBegin(config) ==
    /\ fd.pc = "idle"
    /\ LET inst == newAddon(config)
       IN fd' = IF credentialsIncomplete(inst.config)
                THEN [fd EXCEPT !.pc = "threw", !.inst = inst]
                ELSE [fd EXCEPT !.pc = "core", !.inst = blank(inst)]
    /\ UNCHANGED <<others, mg, et, gd, sr, pl, nm>>

\* fetchData after the four core requests answered, lines 75-168
FetchCore(liveResp, vodResp, liveCatsResp, vodCatsResp) ==
    /\ fd.pc = "core"
    /\ LET asked == [fd EXCEPT !.live = liveResp, !.vod = vodResp,
                               !.liveCats = liveCatsResp, !.vodCats = vodCatsResp]
       IN fd' = IF coreThrows(liveResp, vodResp)
                THEN [asked EXCEPT !.pc = "threw"]
                ELSE [asked EXCEPT
                        !.pc = IF afterCore(fd.inst.config) = "return" THEN "returned"
                               ELSE afterCore(fd.inst.config),
                        !.inst = applyCore(fd.inst, liveResp, vodResp, liveCatsResp,
                                           vodCatsResp)]
    /\ UNCHANGED <<others, mg, et, gd, sr, pl, nm>>

\* fetchData after the two series requests answered, lines 173-212
FetchSeries(seriesResp, seriesCatsResp) ==
    /\ fd.pc = "series"
    /\ fd' = [fd EXCEPT
                !.series = seriesResp, !.seriesCats = seriesCatsResp,
                !.pc = IF afterSeries(fd.inst.config) = "return" THEN "returned"
                       ELSE afterSeries(fd.inst.config),
                !.inst = applySeries(fd.inst, seriesResp, seriesCatsResp)]
    /\ UNCHANGED <<others, mg, et, gd, sr, pl, nm>>

\* fetchData after the EPG request answered, lines 222-229
FetchEpg(epgResp) ==
    /\ fd.pc = "epg"
    /\ fd' = [fd EXCEPT !.epg = epgResp, !.pc = "returned",
                        !.inst = applyEpg(fd.inst, epgResp)]
    /\ UNCHANGED <<others, mg, et, gd, sr, pl, nm>>

NextFetch ==
    \/ \E config \in FetchConfigs : FetchBegin(config)
    \/ \E liveResp \in CoreResponses(LiveList), vodResp \in CoreResponses(VodList),
          liveCatsResp \in AuxResponses(LiveCategories),
          vodCatsResp \in AuxResponses(VodCategories) :
          FetchCore(liveResp, vodResp, liveCatsResp, vodCatsResp)
    \/ \E seriesResp \in AuxResponses(SeriesList),
          seriesCatsResp \in AuxResponses(SeriesCategories) :
          FetchSeries(seriesResp, seriesCatsResp)
    \/ \E epgResp \in EpgResponses : FetchEpg(epgResp)

SpecFetch == Init /\ [][NextFetch]_vars

(***************************************************************************)
(* The merger by itself: two ingestion passes over a feed of live records, *)
(* each pass made on both paths: the playlist of get.php through           *)
(* M3UEPGAddon.parseM3U (M3U mode, lines 27-43 of xtreamProvider.js), and  *)
(* the JSON of get_live_streams through the groupMap fold (lines 112-148). *)
(* A record of the feed is [id, name, group, at]: the channel identifier   *)
(* the provider gave it (tvg-id / epg_channel_id, <<>> for none), its      *)
(* display name, its group, and the number its url is made of.             *)
(***************************************************************************)
MaxRecords == 3    \* records of one feed

Rec(id, name, group) == [id |-> id, name |-> name, group |-> group]

\* what a provider lists: variants of one channel whose identifiers differ
\* in case, channels without an identifier whose names differ in tier and
\* in case, another channel under a name already taken, a channel whose
\* name is a tier word and nothing else, and a film
FeedRecords ==
    { Rec(<<"BBC.uk">>, <<"BBC", "HD">>, <<"News">>),
      Rec(<<"bbc.uk">>, <<"BBC", "One", "4K">>, <<"News">>),
      Rec(<<"cnn">>, <<"BBC", "HD">>, <<"News">>),
      Rec(<<>>, <<"BBC", "HD">>, <<"News">>),
      Rec(<<>>, <<"bbc", "FHD">>, <<"News">>),
      Rec(<<>>, <<"BBC">>, <<>>),
      Rec(<<>>, <<"HD">>, <<"News">>),
      Rec(<<"bbc.uk">>, <<"Heat", "(1995)">>, <<"Movies">>) }

\* the feeds: every list of 1..MaxRecords records, the i-th at number i
Feeds ==
    UNION {{[i \in 1..n |-> [id |-> f[i].id, name |-> f[i].name,
                             group |-> f[i].group, at |-> i]] :
              f \in [1..n -> FeedRecords]} : n \in 1..MaxRecords}

\* what the provider may do to its feed between two passes
Edits == {"same", "renamed", "reordered"}

\* the feed of the second pass: the same list; the same records under the
\* same identifiers with other names, groups, logos and urls; or the same
\* records in the opposite order
edited(feed, edit) ==
    CASE edit = "renamed" ->
           [i \in DOMAIN feed |->
              [feed[i] EXCEPT !.name = <<"One">> \o @,
                              !.group = <<"UK">>,
                              !.at = @ + MaxRecords]]
      [] edit = "reordered" ->
           [i \in DOMAIN feed |-> feed[Len(feed) + 1 - i]]
      [] OTHER -> feed

\* the playlist of a feed, as parseM3U reads it
toM3U(feed) ==
    [i \in DOMAIN feed |->
       [attributes |-> [tvg_id |-> feed[i].id, tvg_name |-> <<>>,
                        tvg_logo |-> <<"icon", feed[i].at>>,
                        group_title |-> feed[i].group],
        name |-> feed[i].name,
        url |-> <<"url", feed[i].at>>]]

\* the get_live_streams answer of a feed; the category id of the records
\* is none of get_live_categories, so that a channel is filed under the
\* category_name of a record
toLive(feed) ==
    [i \in DOMAIN feed |->
       LiveStream(feed[i].at, feed[i].name, feed[i].id, <<"3">>, feed[i].group)]

\* a filter that also drops the channels whose name is tier words only
m3uChannelsNamed(items) ==
    LET keep[i \in 0..Len(items)] ==
          IF i = 0 THEN <<>>
          ELSE IF items[i].type = "tv" /\ m3uBaseName(items[i].name) # <<>>
               THEN Append(keep[i - 1], items[i])
               ELSE keep[i - 1]
    IN keep[Len(items)]

\* xtreamProvider.js line 42: items.filter(i => i.type === 'tv')
m3uChannels(items) ==
    LET keep[i \in 0..Len(items)] ==
          IF i = 0 THEN <<>>
          ELSE IF items[i].type = "tv" THEN Append(keep[i - 1], items[i])
          ELSE keep[i - 1]
    IN keep[Len(items)]

\* the instance the passes are made for
MergeConfig == withProvider(Config("xtream", "alice", "pw1", TRUE, FALSE))

\* one pass in M3U mode: the channels of the instance after it
passM3U(feed) == m3uChannels(parseM3U(toM3U(feed)))

\* one pass in JSON API mode: the channels of the instance after it
passLive(feed) == liveChannels(MergeConfig, toLive(feed), catMap(Body(LiveCategories)))

\* what the merger leaves alone
beside == <<cacheEnabled, redisClient, clock, ticks, buildPromiseCache, dataCache,
            redis, addons, calls, started, runs, finished, fd, et,
            gd, sr, pl, nm>>

\* the first pass
MergeOnce(feed) ==
    /\ mg.pc = "idle"
    /\ mg' = [mg EXCEPT !.pc = "once", !.feed = feed,
                        !.m3u = passM3U(feed), !.live = passLive(feed)]
    /\ UNCHANGED beside

\* the next pass: both lists of channels are built anew
MergeAgain(edit) ==
    /\ mg.pc = "once"
    /\ LET feed2 == edited(mg.feed, edit)
       IN mg' = [mg EXCEPT !.pc = "twice", !.edit = edit, !.feed2 = feed2,
                           !.m3u2 = passM3U(feed2), !.live2 = passLive(feed2)]
    /\ UNCHANGED beside

NextMerge ==
    \/ \E feed \in Feeds : MergeOnce(feed)
    \/ \E edit \in Edits : MergeAgain(edit)

SpecMerge == Init /\ [][NextMerge]_vars

(***************************************************************************)
(* Properties of the build cache, the refresh and the ingestion run        *)
(***************************************************************************)

\* C1: with caching enabled, the createAddon calls made with one
\* fingerprint start one build only, and each of them holds the promise of
\* that build
SingleFlight ==
    cacheEnabled =>
      /\ \A a, b \in DOMAIN addons :
            addons[a].cacheKey = addons[b].cacheKey => a = b
      /\ \A i, j \in DOMAIN calls :
            createCacheKey(calls[i].config) = createCacheKey(calls[j].config)
               => calls[i].promise = calls[j].promise

\* two calls with one fingerprint, the second made while the build of the
\* first had not settled
SingleFlightWitness ==
    /\ cacheEnabled
    /\ Len(calls) = 2
    /\ createCacheKey(calls[1].config) = createCacheKey(calls[2].config)
    /\ calls[2].found = "pending"
    /\ Len(addons) = 1
    /\ \E r \in DOMAIN runs : runs[r].addon = calls[2].promise /\ runs[r].force

\* C2: an updateData run that fails in fetchData on an instance that served
\* a catalog leaves the instance serving that catalog
FailedRefreshKeepsSnapshot ==
    ( /\ finished.pc = "done"
      /\ finished.caught = "core"
      /\ finished.solo
      /\ finished.before.channels # <<>>
      /\ finished.before.movies # <<>> )
    => snapshot(addons[finished.addon].inst) = snapshot(finished.before)

\* C3: while a refresh started by a catalog request is in flight, the
\* instance serves the whole snapshot it served when the refresh began
ReadersSeeWholeSnapshot ==
    \A r \in DOMAIN runs :
       (~runs[r].force /\ inFlight(runs[r]) /\ runs[r].solo)
       => snapshot(addons[runs[r].addon].inst) = snapshot(runs[r].before)

RunsSerialized ==
    \A r, q \in DOMAIN runs :
       (r # q /\ runs[r].addon = runs[q].addon)
       => ~(inFlight(runs[r]) /\ inFlight(runs[q]))

\* C7 as the specification states it: an updateData(true) that finds a
\* catalog younger than the minor interval fetches nothing
ThresholdStopsForced ==
    \A run \in Range(runs) \cup {finished} :
       ( /\ run.force
         /\ run.before.channels # <<>>
         /\ run.now - run.before.lastUpdate < MinorInterval )
       => run.skipped

\* C7: updateData(true) is never skipped; with caching enabled updateData()
\* is skipped when it finds a catalog younger than the minor interval
ThresholdStopsUnforced ==
    \A run \in Range(runs) \cup {finished} :
       /\ run.force => ~run.skipped
       /\ ( /\ run.pc # "never"
            /\ ~run.force
            /\ cacheEnabled
            /\ run.before.channels # <<>>
            /\ run.now - run.before.lastUpdate < MinorInterval )
          => run.skipped

\* the updateData(true) of a build whose loadFromCache restored a catalog
\* ten minutes old is fetching, and an updateData() was skipped
ThresholdStopsUnforcedWitness ==
    /\ \E r \in DOMAIN runs :
          /\ runs[r].force
          /\ inFlight(runs[r])
          /\ runs[r].before.channels # <<>>
          /\ runs[r].now - runs[r].before.lastUpdate < MinorInterval
          /\ addons[runs[r].addon].loaded \in {"local", "redis"}
    /\ ~finished.force
    /\ finished.skipped
    /\ finished.before.channels # <<>>

StoreFailureAbsorbed ==
    /\ \A a \in DOMAIN addons : addons[a].pc # "rejected"
    /\ \A run \in Range(runs) \cup {finished} :
          /\ run.caught # "redis"
          /\ (run.force /\ addons[run.addon].loaded = "failed")
             => run.before = Miss.value
          /\ run.redis = "throw" => run.saved /\ run.pc = "done"
          /\ (run.pc = "redisSet" \/ run.redis = "throw") /\ clock = run.now
             => \/ \E i \in DOMAIN dataCache :
                      dataCache[i].key = addons[run.addon].inst.cacheKey
                \/ /\ Len(dataCache) = MAX_CACHE_ENTRIES
                   /\ \A i \in DOMAIN dataCache : dataCache[i].at >= run.now

\* a build whose GET and SET of the shared store both failed has resolved
StoreFailureAbsorbedWitness ==
    /\ redisClient
    /\ finished.force
    /\ finished.redis = "throw"
    /\ finished.saved
    /\ addons[finished.addon].loaded = "failed"
    /\ addons[finished.addon].pc = "built"
    /\ clock = finished.now
    /\ \E i \in DOMAIN dataCache :
          /\ dataCache[i].key = addons[finished.addon].inst.cacheKey
          /\ dataCache[i].value = finished.entry

\* C10: an ingestion run with complete credentials throws exactly when a
\* core request is rejected, is not ok or has a body that is no JSON; in
\* every other case it goes on with the channels and movies of the core
\* answers, their categories named by the category maps that arrived and by
\* the raw values otherwise, and returns with the series and the guide
\* that arrived and with empty ones otherwise
FetchOutcome ==
    LET coreFailed == \/ fd.live.kind \in {"reject", "notok", "badbody"}
                      \/ fd.vod.kind \in {"reject", "notok", "badbody"}
        arrived(resp) == resp.kind = "body" /\ resp.isArray
        config == fd.inst.config
    IN /\ (fd.pc = "threw" /\ ~credentialsIncomplete(config)) => coreFailed
       /\ fd.pc \in {"series", "epg", "returned"} =>
            /\ ~coreFailed
            /\ IF arrived(fd.live)
               THEN /\ Len(fd.inst.channels) = 2
                    /\ fd.inst.channels[1].category =
                          IF arrived(fd.liveCats) THEN <<"UK">> ELSE <<"News">>
                    /\ fd.inst.channels[2].category =
                          IF arrived(fd.liveCats) THEN <<"US">> ELSE <<"2">>
               ELSE fd.inst.channels = <<>>
            /\ IF arrived(fd.vod)
               THEN /\ Len(fd.inst.movies) = 1
                    /\ fd.inst.movies[1].category =
                          IF arrived(fd.vodCats) THEN <<"Action">> ELSE <<"Movies">>
               ELSE fd.inst.movies = <<>>
       /\ fd.pc = "returned" =>
            /\ IF config.includeSeries /\ arrived(fd.series)
               THEN /\ Len(fd.inst.series) = 1
                    /\ fd.inst.series[1].category =
                          IF arrived(fd.seriesCats) THEN <<"Drama">> ELSE <<"Series">>
               ELSE fd.inst.series = <<>>
            /\ IF config.enableEpg /\ fd.epg.kind = "body" /\ fd.epg.text.wellFormed
               THEN fd.inst.epgData # <<>>
               ELSE fd.inst.epgData = <<>>

\* a run in which every auxiliary request failed has returned
FetchOutcomeWitness ==
    /\ fd.pc = "returned"
    /\ fd.live = Body(LiveList)
    /\ fd.vod = Body(VodList)
    /\ fd.liveCats.kind = "reject"
    /\ fd.vodCats.kind = "notok"
    /\ fd.series.kind = "reject"
    /\ fd.seriesCats.kind = "badbody"
    /\ fd.epg.kind = "reject"
    /\ Len(fd.inst.channels) = 2
    /\ Len(fd.inst.movies) = 1

\* C11: the step in which an updateData run ends because fetchData threw on
\* a core feed leaves dataCache and the shared store as they were, and the
\* run has saved nothing; when no other run worked on the instance,
\* lastUpdate is what it was when the run began
FailedRunPublishesNothing ==
    [][\A r \in DOMAIN runs :
          ( /\ runs[r].pc = "core"
            /\ Len(runs') < Len(runs)
            /\ finished' = [runs[r] EXCEPT !.pc = "done", !.caught = "core"] )
          => /\ dataCache' = dataCache
             /\ redis' = redis
             /\ ~finished'.saved
             /\ finished'.redis = "none"
             /\ runs[r].solo =>
                   addons'[runs[r].addon].inst.lastUpdate = runs[r].before.lastUpdate
      ]_vars

\* a build that restored a published catalog from dataCache has failed on
\* a core feed, and the entry is still in dataCache
FailedRunPublishesNothingWitness ==
    /\ finished.caught = "core"
    /\ finished.solo
    /\ finished.before.lastUpdate # 0
    /\ addons[finished.addon].loaded = "local"
    /\ addons[finished.addon].inst.lastUpdate = finished.before.lastUpdate
    /\ \E i \in DOMAIN dataCache :
          /\ dataCache[i].key = addons[finished.addon].inst.cacheKey
          /\ dataCache[i].value.channels # <<>>
          /\ dataCache[i].value.lastUpdate = finished.before.lastUpdate

\* C12: two createAddon calls that hold the promise of one build were made
\* with configs that agree on every field the fetched content depends on:
\* the server, the user name, the password and the feature flags
FingerprintSeparatesCredentials ==
    \A i, j \in DOMAIN calls :
       calls[i].promise = calls[j].promise
       => /\ calls[i].config.xtreamUrl = calls[j].config.xtreamUrl
          /\ calls[i].config.xtreamUsername = calls[j].config.xtreamUsername
          /\ calls[i].config.xtreamPassword = calls[j].config.xtreamPassword
          /\ calls[i].config.includeSeries = calls[j].config.includeSeries
          /\ calls[i].config.enableEpg = calls[j].config.enableEpg

\* C13: the catalogs kept in process memory, as entries of dataCache and
\* as build results in buildPromiseCache, are never more than
\* MAX_CACHE_ENTRIES of each
LocalStoreBounded ==
    /\ Len(dataCache) <= MAX_CACHE_ENTRIES
    /\ Cardinality({k \in Fingerprints : buildPromiseCache[k] # 0}) <= MAX_CACHE_ENTRIES

(***************************************************************************)
(* Properties of the merger                                                *)
(***************************************************************************)
\* a text with letter case set aside
caseless(v) == [i \in DOMAIN v |-> Lower(v[i])]

\* the channels of a pass in M3U mode that play the record numbered `at`
holdersM3U(chs, at) ==
    {g \in DOMAIN chs :
        \/ chs[g].url = <<"url", at>>
        \/ \E k \in DOMAIN chs[g].streams : chs[g].streams[k].url = <<"url", at>>}

\* the channels of a pass in JSON API mode that play the record numbered `at`
holdersLive(chs, at) ==
    {g \in DOMAIN chs : \E k \in DOMAIN chs[g].streams : chs[g].streams[k].stream_id = at}

\* the record is a live record of the playlist: parseM3U types it 'tv'
liveInM3U(rec) == m3uType(rec.name, normalize(rec.group)) = "tv"

\* two records of one feed are played by one and the same channel, and by
\* no other, on the path named
togetherM3U(chs, a, b) ==
    /\ Cardinality(holdersM3U(chs, a.at)) = 1
    /\ holdersM3U(chs, a.at) = holdersM3U(chs, b.at)
togetherLive(chs, a, b) ==
    /\ Cardinality(holdersLive(chs, a.at)) = 1
    /\ holdersLive(chs, a.at) = holdersLive(chs, b.at)

\* the passes made so far: the feed of each with the channels it gave
passes ==
    IF mg.pc = "idle" THEN {}
    ELSE {[feed |-> mg.feed, m3u |-> mg.m3u, live |-> mg.live]}
         \cup IF mg.pc = "twice"
              THEN {[feed |-> mg.feed2, m3u |-> mg.m3u2, live |-> mg.live2]}
              ELSE {}

\* C14: in every pass, two live records whose channel identifiers are given
\* and are equal up to letter case are played by exactly one channel, on
\* the playlist path and on the JSON API path, whatever their names
SameIdentifierOneChannel ==
    \A p \in passes : \A i, j \in DOMAIN p.feed :
       LET a == p.feed[i]
           b == p.feed[j]
       IN (~Falsy(a.id) /\ caseless(a.id) = caseless(b.id))
          => /\ (liveInM3U(a) /\ liveInM3U(b)) => togetherM3U(p.m3u, a, b)
             /\ togetherLive(p.live, a, b)

\* the cleaned name of a record: its name without the tier words, in lower
\* case
cleanedName(rec) == caseless(m3uBaseName(rec.name))

\* C15: in every pass, two live records without a channel identifier whose
\* cleaned names are equal are played by exactly one channel, which lists
\* one variant for each record folded into it
SameCleanedNameOneChannel ==
    \A p \in passes : \A i, j \in DOMAIN p.feed :
       LET a == p.feed[i]
           b == p.feed[j]
       IN (Falsy(a.id) /\ Falsy(b.id) /\ cleanedName(a) = cleanedName(b))
          => /\ (liveInM3U(a) /\ liveInM3U(b))
                => /\ togetherM3U(p.m3u, a, b)
                   /\ \A g \in holdersM3U(p.m3u, a.at) :
                         Len(p.m3u[g].streams) =
                            Cardinality({k \in DOMAIN p.feed :
                                           holdersM3U(p.m3u, p.feed[k].at) = {g}})
             /\ togetherLive(p.live, a, b)
             /\ \A g \in holdersLive(p.live, a.at) :
                   Len(p.live[g].streams) =
                      Cardinality({k \in DOMAIN p.feed :
                                     holdersLive(p.live, p.feed[k].at) = {g}})

\* C16: in every pass, two live records whose channel identifiers are given
\* and differ, letter case aside, are never played by one channel, on
\* either path, even under one name
DifferentIdentifiersApart ==
    \A p \in passes : \A i, j \in DOMAIN p.feed :
       LET a == p.feed[i]
           b == p.feed[j]
       IN (~Falsy(a.id) /\ ~Falsy(b.id) /\ caseless(a.id) # caseless(b.id))
          => /\ holdersM3U(p.m3u, a.at) \cap holdersM3U(p.m3u, b.at) = {}
             /\ holdersLive(p.live, a.at) \cap holdersLive(p.live, b.at) = {}

\* two records under one name and different identifiers went through a pass
\* and each is played by a channel of its own on both paths
DifferentIdentifiersApartWitness ==
    /\ mg.pc = "twice"
    /\ \E i, j \in DOMAIN mg.feed :
          /\ ~Falsy(mg.feed[i].id) /\ ~Falsy(mg.feed[j].id)
          /\ caseless(mg.feed[i].id) # caseless(mg.feed[j].id)
          /\ mg.feed[i].name = mg.feed[j].name
          /\ Cardinality(holdersM3U(mg.m3u, mg.feed[i].at)) = 1
          /\ Cardinality(holdersM3U(mg.m3u, mg.feed[j].at)) = 1
          /\ Cardinality(holdersLive(mg.live, mg.feed[i].at)) = 1
          /\ Cardinality(holdersLive(mg.live, mg.feed[j].at)) = 1

\* the variants of a channel are listed best tier first
bestFirst(streams) ==
    \A k \in 1..(Len(streams) - 1) :
       QualityOrder(streams[k].quality) <= QualityOrder(streams[k + 1].quality)

\* the channel lists a variant, lists its variants best tier first, and
\* plays the first of them by default
wellFormed(ch) ==
    /\ ch.streams # <<>>
    /\ bestFirst(ch.streams)
    /\ ch.url = ch.streams[1].url

\* C17: every channel a pass leaves on the instance, on the playlist path
\* and on the JSON API path, lists at least one variant, lists its
\* variants by tier rank (4K, FHD, HD, SD), and has the url of the first
\* variant as its default url; a feed of n records is the state of the
\* merger after the n-th record was folded in
ChannelsWellFormed ==
    \A p \in passes :
       /\ \A g \in DOMAIN p.m3u : wellFormed(p.m3u[g])
       /\ \A g \in DOMAIN p.live : wellFormed(p.live[g])

\* the canonical key of a channel of the playlist path: the normalized
\* identifier it was merged under
keyM3U(ch) == ch.epg_channel_id

\* the channels of a pass that were merged under a key
mergedM3U(chs) == {g \in DOMAIN chs : ~Falsy(keyM3U(chs[g]))}

\* C18: after the feed was listed again with the same identifiers under
\* other names, groups, logos and urls, every record that carries an
\* identifier is played by a channel with the id its channel had in the
\* first pass, on both paths; and in every pass two channels merged under
\* different keys have different ids
IdFollowsKey ==
    /\ (mg.pc = "twice" /\ mg.edit = "renamed")
       => \A i \in DOMAIN mg.feed :
             ~Falsy(mg.feed[i].id)
             => /\ liveInM3U(mg.feed[i])
                   => \A g \in holdersM3U(mg.m3u, mg.feed[i].at),
                         h \in holdersM3U(mg.m3u2, mg.feed2[i].at) :
                         mg.m3u[g].id = mg.m3u2[h].id
                /\ \A g \in holdersLive(mg.live, mg.feed[i].at),
                      h \in holdersLive(mg.live2, mg.feed2[i].at) :
                      mg.live[g].id = mg.live2[h].id
    /\ \A p \in passes :
          /\ \A g, h \in mergedM3U(p.m3u) :
                keyM3U(p.m3u[g]) # keyM3U(p.m3u[h]) => p.m3u[g].id # p.m3u[h].id
          /\ \A g, h \in DOMAIN p.live :
                g # h => p.live[g].id # p.live[h].id

\* a feed with two channels under different identifiers was listed again
\* under other names and urls, and each record is still played by a channel
\* on both paths
IdFollowsKeyWitness ==
    /\ mg.pc = "twice" /\ mg.edit = "renamed"
    /\ Cardinality(mergedM3U(mg.m3u2)) >= 2
    /\ Len(mg.live2) >= 2
    /\ \E i \in DOMAIN mg.feed :
          /\ ~Falsy(mg.feed[i].id)
          /\ mg.feed2[i].name # mg.feed[i].name
          /\ holdersM3U(mg.m3u, mg.feed[i].at) # {}
          /\ holdersM3U(mg.m3u2, mg.feed2[i].at) # {}
          /\ \A g \in holdersM3U(mg.m3u, mg.feed[i].at),
                h \in holdersM3U(mg.m3u2, mg.feed2[i].at) :
                mg.m3u[g].name # mg.m3u2[h].name /\ mg.m3u[g].url # mg.m3u2[h].url
          /\ holdersLive(mg.live, mg.feed[i].at) # {}
          /\ holdersLive(mg.live2, mg.feed2[i].at) # {}

\* the place in the feed of the record numbered `at`
placeOf(feed, at) == CHOOSE i \in DOMAIN feed : feed[i].at = at

\* variants of one tier are listed in the order their records came in
tiesInOrderM3U(feed, ch) ==
    \A k, l \in DOMAIN ch.streams :
       (k < l /\ ch.streams[k].quality = ch.streams[l].quality)
       => placeOf(feed, ch.streams[k].url[2]) < placeOf(feed, ch.streams[l].url[2])
tiesInOrderLive(feed, ch) ==
    \A k, l \in DOMAIN ch.streams :
       (k < l /\ ch.streams[k].quality = ch.streams[l].quality)
       => placeOf(feed, ch.streams[k].stream_id) < placeOf(feed, ch.streams[l].stream_id)

Offset(type, value, tenths) == [type |-> type, value |-> value, tenths |-> tenths]

\* 50, -60, 48.5, -48.5, 48, -48, 2.5, -2.5, 5.5, 0.1 and 0 hours
OffsetTenths == {500, -600, 485, -485, 480, -480, 25, -25, 55, 1, 0}

\* what epgOffsetHours may be configured as: numbers, NaN and the
\* infinities, strings of numbers ('2.5', '50'), strings that parseFloat
\* gives NaN ('abc', '') or Infinity for, nothing, and other values
GivenOffsets ==
    {Offset(t, "finite", n) : t \in {"number", "string"}, n \in OffsetTenths}
    \cup {Offset("number", v, 0) : v \in {"nan", "inf", "-inf"}}
    \cup {Offset("string", v, 0) : v \in {"nan", "inf"}}
    \cup {Offset("undefined", "none", 0), Offset("object", "none", 0)}

\* the constructor without the test of line 110
epgOffsetHoursUnclamped(given) ==
    LET parsed == IF given.type = "string" /\ given.value # "nan"
                  THEN [given EXCEPT !.type = "number"]
                  ELSE given
    IN IF parsed.type # "number" \/ parsed.value # "finite" THEN 0
       ELSE parsed.tenths

\* constructor, lines 104-111: config.epgOffsetHours after it, in tenths
epgOffsetHours(given) ==
    LET parsed == IF given.type = "string" /\ given.value # "nan"
                  THEN [given EXCEPT !.type = "number"]
                  ELSE given
        number == IF parsed.type # "number" \/ parsed.value # "finite" THEN 0
                  ELSE parsed.tenths
        abs == IF number < 0 THEN 0 - number ELSE number
    IN IF abs > 48 * 10 THEN 0 ELSE number

\* a start / stop attribute of the guide.  form "digits" is the 14 digits
\* of a local time (base, in ms) alone, "zoned" the digits followed by a
\* zone +hhmm / -hhmm (tz, in minutes), "date" another text new Date()
\* understands, "garbage" one it does not, "empty" no text.
TimeText(form, base, tz) == [form |-> form, base |-> base, tz |-> tz]

TimeTexts ==
    {TimeText("digits", b, 0) : b \in {StartClock, StartClock + 1800000}}
    \cup {TimeText("zoned", b, z) : b \in {StartClock, StartClock + 1800000},
                                    z \in {60, -330}}
    \cup {TimeText("date", StartClock, 0), TimeText("garbage", 0, 0),
          TimeText("empty", 0, 0)}

\* lines 337-352 and 358: the Date the text stands for.  The zoned text is
\* handed to new Date() as yyyy-mm-ddThh:mm:ss+hhmm, a form the language
\* does not require an engine to accept; when it is not, the digits are
\* read as a local time.  The process runs in UTC.
dateOf(s, now, isoAccepted) ==
    CASE s.form = "empty" -> [valid |-> TRUE, ms |-> now]
      [] s.form = "digits" -> [valid |-> TRUE, ms |-> s.base]
      [] s.form = "zoned" ->
           [valid |-> TRUE,
            ms |-> IF isoAccepted THEN s.base - s.tz * 60000 ELSE s.base]
      [] s.form = "date" -> [valid |-> TRUE, ms |-> s.base]
      [] OTHER -> [valid |-> FALSE, ms |-> 0]

\* parseEPGTime, lines 335-363, on an instance whose offset is `tenths`
parseEPGTime(s, tenths, now, isoAccepted) ==
    LET date == dateOf(s, now, isoAccepted)
    IN IF s.form = "empty" THEN date
       ELSE IF tenths # 0 /\ date.valid
            THEN [date EXCEPT !.ms = @ + tenths * 360000]
            ELSE date

\* what the guide's times leave alone
apart == <<cacheEnabled, redisClient, clock, ticks, buildPromiseCache, dataCache,
           redis, addons, calls, started, runs, finished, fd, mg,
           gd, sr, pl, nm>>

\* new M3UEPGAddon(config) with some epgOffsetHours
Construct(given) ==
    /\ et.pc = "idle"
    /\ et' = [et EXCEPT !.pc = "made", !.given = given,
                        !.epgOffsetHours = epgOffsetHours(given)]
    /\ UNCHANGED apart

\* the instance parses one attribute of the guide
ParseTime(s, isoAccepted) ==
    /\ et.pc = "made"
    /\ et' = [et EXCEPT !.pc = "parsed", !.text = s, !.isoAccepted = isoAccepted,
                        !.time = parseEPGTime(s, et.epgOffsetHours, clock,
                                              isoAccepted)]
    /\ UNCHANGED apart

NextTime ==
    \/ \E given \in GivenOffsets : Construct(given)
    \/ \E s \in TimeTexts, isoAccepted \in BOOLEAN : ParseTime(s, isoAccepted)

SpecTime == Init /\ [][NextTime]_vars

(***************************************************************************)
(* Properties of the EPG offset                                            *)
(***************************************************************************)
\* the configured value is a number, or the text of one, that is finite
finiteGiven == et.given.type \in {"number", "string"} /\ et.given.value = "finite"

\* C20: an instance made with an offset above 48 or below -48 hours, or
\* with one that is no finite number, has the offset 0; one made with a
\* finite offset from -48 to 48 hours, whole or not, keeps it; and every
\* programme time the instance parses from a text is the time of the text
\* moved by the offset the instance has, 2.5 hours being 9000000 ms
OffsetClamped ==
    /\ et.pc # "idle"
       => /\ (finiteGiven /\ (et.given.tenths > 480 \/ et.given.tenths < -480))
             => et.epgOffsetHours = 0
          /\ ~finiteGiven => et.epgOffsetHours = 0
          /\ (finiteGiven /\ et.given.tenths <= 480 /\ et.given.tenths >= -480)
             => et.epgOffsetHours = et.given.tenths
    /\ (et.pc = "parsed" /\ et.text.form \in {"digits", "zoned", "date"})
       => /\ et.time.valid
          /\ et.time.ms - dateOf(et.text, clock, et.isoAccepted).ms
                = et.epgOffsetHours * 360000
          /\ et.given = Offset("number", "finite", 25)
             => et.time.ms - dateOf(et.text, clock, et.isoAccepted).ms = 9000000

\* an instance made with 50 hours has parsed a zoned time and left it
\* where the text puts it
OffsetClampedWitness ==
    /\ et.pc = "parsed"
    /\ et.given = Offset("number", "finite", 500)
    /\ et.epgOffsetHours = 0
    /\ et.text.form = "zoned"
    /\ et.time = dateOf(et.text, clock, et.isoAccepted)

\* C21: a programme time parsed from a text with a zone is the instant the
\* digits and the zone give, whatever offset the instance has; the offset
\* of the instance moves only the times parsed from digits without a zone
ZoneAloneConverts ==
    et.pc = "parsed"
    => /\ et.text.form = "zoned"
          => et.time.ms = dateOf(et.text, clock, et.isoAccepted).ms
       /\ et.text.form = "digits"
          => et.time.ms = et.text.base + et.epgOffsetHours * 360000

(***************************************************************************)
(* The guide of an instance and the two lookups on it: getCurrentProgram   *)
(* and getUpcomingPrograms (addon.js).  epgData is what parseEPG made of   *)
(* the programmes of the feed in the order of the feed; the start and stop *)
(* of a programme are the texts of the feed, parsed at every lookup.       *)
(***************************************************************************)
MaxProgrammes == 3    \* programmes of one guide

\* the 14 digits of h o'clock
Hour(h) == TimeText("digits", h * 3600000, 0)

\* the programmes a guide is made of: three of one channel, one of another
\* and one whose times are no times
GuideProgrammes ==
    { Programme(<<"bbc">>, Hour(11), Hour(13), <<"News">>),
      Programme(<<"bbc">>, Hour(13), Hour(14), <<"Heat">>),
      Programme(<<"bbc">>, Hour(14), Hour(15), <<>>),
      Programme(<<"cnn">>, Hour(12), Hour(16), <<"News">>),
      Programme(<<"bbc">>, TimeText("garbage", 0, 0), TimeText("garbage", 0, 0),
                <<"One">>) }

\* the guides: every list of 1..MaxProgrammes programmes
Guides ==
    UNION {[1..n -> GuideProgrammes] : n \in 1..MaxProgrammes}

\* the moments a lookup is made at: before the first programme, inside it,
\* at its last millisecond, a second later
Moments == {10 * 3600000, 12 * 3600000, 13 * 3600000, 13 * 3600000 + 1000}

\* the channel keys asked for: known ones, none, and an unknown one
ChannelKeys == {<<"bbc">>, <<"cnn">>, <<>>, <<"zzz">>}

\* the limits asked for; 5 is the default
Limits == {1, 2, 5}

\* this.epgData[channelId]: the programmes of the key, <<>> (undefined)
\* without any
programmesOf(epgData, channelId) ==
    IF \E e \in DOMAIN epgData : epgData[e].channel = channelId
    THEN epgData[CHOOSE e \in DOMAIN epgData :
                    epgData[e].channel = channelId].programmes
    ELSE <<>>

\* now >= date, now <= date, date > now: false for an invalid Date
notBefore(now, date) == date.valid /\ now >= date.ms
notAfter(now, date) == date.valid /\ now <= date.ms
later(date, now) == date.valid /\ date.ms > now

\* null
NoProgram == [found |-> FALSE, title |-> <<>>, description |-> <<>>,
              start |-> [valid |-> FALSE, ms |-> 0],
              stop |-> [valid |-> FALSE, ms |-> 0]]

\* getCurrentProgram with a programme over at its stop
getCurrentProgramOpen(epgData, tenths, channelId, now) ==
    LET list == programmesOf(epgData, channelId)
        start(p) == parseEPGTime(p.start, tenths, now, TRUE)
        stop(p) == parseEPGTime(p.stop, tenths, now, TRUE)
        hits == {i \in DOMAIN list :
                    notBefore(now, start(list[i])) /\ later(stop(list[i]), now)}
    IN IF Falsy(channelId) \/ list = <<>> \/ hits = {} THEN NoProgram
       ELSE LET p == list[CHOOSE i \in hits : \A j \in hits : i <= j]
            IN [found |-> TRUE, title |-> p.title, description |-> p.desc,
                start |-> start(p), stop |-> stop(p)]

\* getCurrentProgram, lines 365-376
getCurrentProgram(epgData, tenths, channelId, now) ==
    LET list == programmesOf(epgData, channelId)
        start(p) == parseEPGTime(p.start, tenths, now, TRUE)
        stop(p) == parseEPGTime(p.stop, tenths, now, TRUE)
        hits == {i \in DOMAIN list :
                    notBefore(now, start(list[i])) /\ notAfter(now, stop(list[i]))}
    IN IF Falsy(channelId) \/ list = <<>> \/ hits = {} THEN NoProgram
       ELSE LET p == list[CHOOSE i \in hits : \A j \in hits : i <= j]
            IN [found |-> TRUE, title |-> p.title, description |-> p.desc,
                start |-> start(p), stop |-> stop(p)]

\* the comparator of line 394: a.startTime - b.startTime
byStartTime(a, b) == a.startTime.ms - b.startTime.ms

\* getUpcomingPrograms, lines 378-395: the loop stops pushing at `limit`
\* entries, and what it pushed is sorted
getUpcomingPrograms(epgData, tenths, channelId, now, limit) ==
    LET list == programmesOf(epgData, channelId)
        start(p) == parseEPGTime(p.start, tenths, now, TRUE)
        upcoming[i \in 0..Len(list)] ==
            IF i = 0 THEN <<>>
            ELSE IF later(start(list[i]), now) /\ Len(upcoming[i - 1]) < limit
                 THEN Append(upcoming[i - 1],
                             [title |-> list[i].title,
                              description |-> list[i].desc,
                              startTime |-> start(list[i]),
                              stopTime |-> parseEPGTime(list[i].stop, tenths, now,
                                                        TRUE)])
                 ELSE upcoming[i - 1]
    IN IF Falsy(channelId) \/ list = <<>> THEN <<>>
       ELSE Sort(upcoming[Len(list)], byStartTime)

\* what the lookups leave alone
aside == <<cacheEnabled, redisClient, clock, ticks, buildPromiseCache, dataCache,
           redis, addons, calls, started, runs, finished, fd, mg, et,
           sr, pl, nm>>

\* an instance with an offset of 0 or 1 hour has parsed the guide
LoadGuide(guide, tenths) ==
    /\ gd.pc = "idle"
    /\ gd' = [pc |-> "loaded", tenths |-> tenths,
              epgData |-> parseEPG([wellFormed |-> TRUE, programme |-> guide])]
    /\ UNCHANGED aside

\* the instance is asked for the programme now on a channel
AskCurrent(channelId, now) ==
    /\ gd.pc = "loaded"
    /\ gd' = [pc |-> "current", tenths |-> gd.tenths, epgData |-> gd.epgData,
              channelId |-> channelId, now |-> now,
              current |-> getCurrentProgram(gd.epgData, gd.tenths, channelId, now)]
    /\ UNCHANGED aside

\* the instance is asked for the programmes coming up on a channel
AskUpcoming(channelId, now, limit) ==
    /\ gd.pc = "loaded"
    /\ gd' = [pc |-> "upcoming", tenths |-> gd.tenths, epgData |-> gd.epgData,
              channelId |-> channelId, now |-> now, limit |-> limit,
              upcoming |-> getUpcomingPrograms(gd.epgData, gd.tenths, channelId,
                                               now, limit)]
    /\ UNCHANGED aside

NextGuide ==
    \/ \E guide \in Guides, tenths \in {0, 10} : LoadGuide(guide, tenths)
    \/ \E channelId \in ChannelKeys, now \in Moments : AskCurrent(channelId, now)
    \/ \E channelId \in ChannelKeys, now \in Moments, limit \in Limits :
          AskUpcoming(channelId, now, limit)

SpecGuide == Init /\ [][NextGuide]_vars

(***************************************************************************)
(* Properties of the guide                                                 *)
(***************************************************************************)
\* the instants a programme of the guide starts and stops at
startOf(p) == parseEPGTime(p.start, gd.tenths, 0, TRUE)
stopOf(p) == parseEPGTime(p.stop, gd.tenths, 0, TRUE)

\* the programme contains the moment, both ends included
contains(p, now) ==
    /\ startOf(p).valid /\ stopOf(p).valid
    /\ startOf(p).ms <= now /\ now <= stopOf(p).ms

\* the programmes of the channel asked for, as the guide lists them
asked == IF Falsy(gd.channelId) THEN <<>>
         ELSE programmesOf(gd.epgData, gd.channelId)

\* C22: what getCurrentProgram answers is the first programme of the
\* channel with start <= now <= stop, and nothing when the channel has no
\* such programme, is not in the guide, or is the empty key
CurrentIsFirstContaining ==
    gd.pc = "current"
    => IF \E i \in DOMAIN asked : contains(asked[i], gd.now)
       THEN LET i == CHOOSE i \in DOMAIN asked :
                        /\ contains(asked[i], gd.now)
                        /\ \A j \in 1..(i - 1) : ~contains(asked[j], gd.now)
            IN /\ gd.current.found
               /\ gd.current.title = asked[i].title
               /\ gd.current.start = startOf(asked[i])
               /\ gd.current.stop = stopOf(asked[i])
       ELSE ~gd.current.found

\* asked at 13:00:00 on a channel whose guide lists 11:00-13:00 before
\* 13:00-14:00, the instance answered the programme that stops at 13:00:00
CurrentIsFirstContainingWitness ==
    /\ gd.pc = "current"
    /\ gd.tenths = 0
    /\ gd.now = 13 * 3600000
    /\ gd.current.found
    /\ gd.current.stop.ms = gd.now
    /\ \E i, j \in DOMAIN asked :
          i < j /\ contains(asked[i], gd.now) /\ contains(asked[j], gd.now)

\* the programmes of the channel asked for that start after the moment
comingUp ==
    LET keep[i \in 0..Len(asked)] ==
          IF i = 0 THEN <<>>
          ELSE IF startOf(asked[i]).valid /\ startOf(asked[i]).ms > gd.now
               THEN Append(keep[i - 1], asked[i])
               ELSE keep[i - 1]
    IN keep[Len(asked)]

\* C23: what getUpcomingPrograms answers has, start for start, the first
\* `limit` of the channel's programmes with start > now when these are put
\* in the order of their starts, whatever their order in the guide
UpcomingAreEarliest ==
    gd.pc = "upcoming"
    => LET starts == {startOf(comingUp[i]).ms : i \in DOMAIN comingUp}
           n == IF Len(comingUp) < gd.limit THEN Len(comingUp) ELSE gd.limit
       IN /\ Len(gd.upcoming) = n
          /\ \A k \in DOMAIN gd.upcoming :
                /\ k > 1 => gd.upcoming[k - 1].startTime.ms <= gd.upcoming[k].startTime.ms
                /\ Cardinality({i \in DOMAIN comingUp :
                       startOf(comingUp[i]).ms < gd.upcoming[k].startTime.ms}) < k

(***************************************************************************)
(* The stream handler: getStream on the lists of an instance after one     *)
(* ingestion pass over a feed, in M3U mode or in JSON API mode, and what   *)
(* the handler of createAddon makes of its answer.                         *)
(***************************************************************************)
\* xtreamProvider.js line 43: items.filter(i => i.type === 'movie')
m3uMovies(items) ==
    LET keep[i \in 0..Len(items)] ==
          IF i = 0 THEN <<>>
          ELSE IF items[i].type = "movie" THEN Append(keep[i - 1], items[i])
          ELSE keep[i - 1]
    IN keep[Len(items)]

\* the episodes the instance knows of (seriesInfoCache): one
KnownEpisodes ==
    << [id |-> <<"iptv_series_ep", 1>>, url |-> <<"url", "episode", 1>>,
        title |-> <<"Pilot">>, season |-> 1, episode |-> 1] >>

\* lookupEpisodeById, lines 534-548: the indexes of the episodes of that id
lookupEpisodeById(episodes, epId) ==
    {i \in DOMAIN episodes : episodes[i].id = epId}

\* item.streams && item.streams.length > 0
hasStreams(item) == "streams" \in DOMAIN item /\ item.streams # <<>>

\* a getStream that answers the default url of every item
getStreamDefaultOnly(inst, id) ==
    IF id[1] = "iptv_series_ep"
    THEN LET found == lookupEpisodeById(inst.episodes, id)
         IN IF found = {} THEN <<>>
            ELSE LET ep == inst.episodes[CHOOSE i \in found : \A j \in found : i <= j]
                 IN << [url |-> ep.url, name |-> "episode"] >>
    ELSE
      LET all == inst.channels \o inst.movies
          hits == {i \in DOMAIN all : all[i].id = id}
      IN IF hits = {} THEN <<>>
         ELSE LET item == all[CHOOSE i \in hits : \A j \in hits : i <= j]
              IN << [url |-> item.url, name |-> item.type] >>

\* getStream, lines 500-532, and the handler, lines 871-887: the streams
\* answered, <<>> when getStream returns null.  A stream is [url, name]:
\* name is the tier of a variant, and stands for the title otherwise.
getStream(inst, id) ==
    IF id[1] = "iptv_series_ep"
    THEN LET found == lookupEpisodeById(inst.episodes, id)
         IN IF found = {} THEN <<>>
            ELSE LET ep == inst.episodes[CHOOSE i \in found : \A j \in found : i <= j]
                 IN << [url |-> ep.url, name |-> "episode"] >>
    ELSE
      LET all == inst.channels \o inst.movies
          hits == {i \in DOMAIN all : all[i].id = id}
      IN IF hits = {} THEN <<>>
         ELSE LET item == all[CHOOSE i \in hits : \A j \in hits : i <= j]
              IN IF hasStreams(item)
                 THEN [k \in DOMAIN item.streams |->
                         [url |-> item.streams[k].url,
                          name |-> item.streams[k].quality]]
                 ELSE << [url |-> item.url, name |-> item.type] >>

\* what a client may ask for: the k-th channel or the k-th movie of the
\* catalog it was shown, an id of no item, a known or an unknown episode
Asks ==
    {[of |-> o, k |-> k] : o \in {"channel", "movie"}, k \in 1..MaxRecords}
    \cup {[of |-> o, k |-> 0] : o \in {"gone", "episode", "no episode"}}

\* the ask can be made of the instance
askable(inst, ask) ==
    CASE ask.of = "channel" -> ask.k <= Len(inst.channels)
      [] ask.of = "movie" -> ask.k <= Len(inst.movies)
      [] OTHER -> TRUE

\* the id the stream handler is called with
idAsked(inst, ask) ==
    CASE ask.of = "channel" -> inst.channels[ask.k].id
      [] ask.of = "movie" -> inst.movies[ask.k].id
      [] ask.of = "episode" -> <<"iptv_series_ep", 1>>
      [] ask.of = "no episode" -> <<"iptv_series_ep", 2>>
      [] OTHER -> <<"iptv", <<"md5", <<"gone">>>>>>

\* what the stream handler leaves alone
around == <<cacheEnabled, redisClient, clock, ticks, buildPromiseCache, dataCache,
            redis, addons, calls, started, runs, finished, fd, mg, et,
            gd, pl, nm>>

\* an instance after a pass over the feed, in M3U mode or in JSON API mode
TakeSnapshot(feed, useM3U) ==
    /\ sr.pc = "idle"
    /\ sr' = [pc |-> "ready", useM3U |-> useM3U,
              inst |-> [channels |-> IF useM3U THEN passM3U(feed)
                                     ELSE passLive(feed),
                        movies |-> IF useM3U THEN m3uMovies(parseM3U(toM3U(feed)))
                                   ELSE vodMovies(MergeConfig, VodList,
                                                  catMap(Body(VodCategories))),
                        episodes |-> KnownEpisodes]]
    /\ UNCHANGED around

\* the stream handler is called with an id
Resolve(ask) ==
    /\ sr.pc = "ready"
    /\ askable(sr.inst, ask)
    /\ LET id == idAsked(sr.inst, ask)
       IN sr' = [pc |-> "resolved", useM3U |-> sr.useM3U, inst |-> sr.inst,
                 id |-> id, streams |-> getStream(sr.inst, id)]
    /\ UNCHANGED around

NextStream ==
    \/ \E feed \in Feeds, useM3U \in BOOLEAN : TakeSnapshot(feed, useM3U)
    \/ \E ask \in Asks : Resolve(ask)

SpecStream == Init /\ [][NextStream]_vars

(***************************************************************************)
(* Properties of the stream handler                                        *)
(***************************************************************************)
\* the channels and movies of the instance that have the id asked for
matching ==
    {item \in Range(sr.inst.channels) \cup Range(sr.inst.movies) : item.id = sr.id}

\* the urls an item plays, in the order of its variants list; its one url
\* when it has no such list
urlsOf(item) ==
    IF "streams" \in DOMAIN item /\ Len(item.streams) > 0
    THEN [k \in DOMAIN item.streams |-> item.streams[k].url]
    ELSE <<item.url>>

\* C24: asked for the id of a channel or movie of the instance, the
\* handler answers the urls of that item, one for each of its variants in
\* the order of the variants list and best tier first, or the one url of
\* an item without variants; asked for an id of no channel, movie or known
\* episode it answers no stream
StreamsOfItem ==
    sr.pc = "resolved"
    => /\ \A item \in matching :
             /\ [k \in DOMAIN sr.streams |-> sr.streams[k].url] = urlsOf(item)
             /\ Len(sr.streams) > 1
                => \A k \in 1..(Len(sr.streams) - 1) :
                      QualityOrder(sr.streams[k].name)
                         <= QualityOrder(sr.streams[k + 1].name)
       /\ (matching = {} /\ sr.id # <<"iptv_series_ep", 1>>) => sr.streams = <<>>

\* the handler was asked for a channel with variants of two tiers and
\* answered more than one stream
StreamsOfItemWitness ==
    /\ sr.pc = "resolved"
    /\ \E item \in matching :
          /\ item.type = "tv"
          /\ Len(item.streams) >= 2
          /\ item.streams[1].quality # item.streams[Len(item.streams)].quality
    /\ Len(sr.streams) >= 2

\* the record of the feed that came first among those a channel plays
firstM3U(feed, chs, g) ==
    feed[CHOOSE i \in DOMAIN feed :
           /\ g \in holdersM3U(chs, feed[i].at)
           /\ \A j \in 1..(i - 1) : g \notin holdersM3U(chs, feed[j].at)]
firstLive(feed, chs, g) ==
    feed[CHOOSE i \in DOMAIN feed :
           /\ g \in holdersLive(chs, feed[i].at)
           /\ \A j \in 1..(i - 1) : g \notin holdersLive(chs, feed[j].at)]

\* C25: in every pass, a channel merged under a key has the name, the logo,
\* the category and the EPG key of the first record folded under that key,
\* however many records with other names, logos and categories were folded
\* under it afterwards, on both paths
FirstRecordNamesChannel ==
    \A p \in passes :
       /\ \A g \in mergedM3U(p.m3u) :
             LET first == firstM3U(p.feed, p.m3u, g)
             IN /\ p.m3u[g].name = m3uBaseName(first.name)
                /\ p.m3u[g].logo = <<"icon", first.at>>
                /\ p.m3u[g].category = first.group
                /\ p.m3u[g].epg_channel_id = caseless(first.id)
       /\ \A g \in DOMAIN p.live :
             LET first == firstLive(p.feed, p.live, g)
             IN /\ p.live[g].name = cleanName(first.name)
                /\ p.live[g].logo = <<"icon", first.at>>
                /\ p.live[g].category =
                      (IF Falsy(first.group) THEN <<"3">> ELSE first.group)
                /\ p.live[g].epg_channel_id = first.id

\* a pass folded under one key, on each path, a second record whose name
\* without the tier words is not that of the first
FirstRecordNamesChannelWitness ==
    /\ mg.pc = "once"
    /\ \E i, j \in DOMAIN mg.feed :
          /\ i < j
          /\ m3uBaseName(mg.feed[i].name) # m3uBaseName(mg.feed[j].name)
          /\ \E g \in mergedM3U(mg.m3u) :
                /\ holdersM3U(mg.m3u, mg.feed[i].at) = {g}
                /\ holdersM3U(mg.m3u, mg.feed[j].at) = {g}
    /\ \E i, j \in DOMAIN mg.feed :
          /\ i < j
          /\ cleanName(mg.feed[i].name) # cleanName(mg.feed[j].name)
          /\ \E g \in DOMAIN mg.live :
                /\ holdersLive(mg.live, mg.feed[i].at) = {g}
                /\ holdersLive(mg.live, mg.feed[j].at) = {g}

MaxWords == 3    \* words of one name

\* the words names are made of: a station, the tier words in both cases,
\* and the resolutions with and without the P
NameWords ==
    {"BBC", "4K", "UHD", "FHD", "fhd", "FULL", "HD", "hd", "1080", "1080P",
     "720", "SD"}

\* the names: every text of 1..MaxWords words
Names == UNION {[1..n -> NameWords] : n \in 1..MaxWords}

\* what a look at a name leaves alone
apartName == <<cacheEnabled, redisClient, clock, ticks, buildPromiseCache,
               dataCache, redis, addons, calls, started, runs, finished, fd, mg,
               et, gd, sr, pl>>

\* both mergers take the tier and the cleaned name of a record's name
Look(name) ==
    /\ nm.pc = "idle"
    /\ nm' = [pc |-> "seen", name |-> name,
              quality |-> detectQuality(name), cleaned |-> cleanName(name),
              m3uQuality |-> m3uQuality(name), m3uBaseName |-> m3uBaseName(name)]
    /\ UNCHANGED apartName

NextName == \E name \in Names : Look(name)

SpecName == Init /\ [][NextName]_vars

(***************************************************************************)
(* Properties of tier detection and of the cleaned name                    *)
(***************************************************************************)
\* the name has one of the tokens, letter case aside; FULL HD is two words
hasToken(name, tokens) == \E i \in DOMAIN name : Lower(name[i]) \in tokens
hasFullHD(name) ==
    \E i \in 1..(Len(name) - 1) : Lower(name[i]) = "full" /\ Lower(name[i + 1]) = "hd"

\* the tier the tokens of a name stand for
tierOf(name) ==
    IF hasToken(name, {"4k", "uhd"}) THEN "4K"
    ELSE IF hasToken(name, {"fhd", "1080", "1080p"}) \/ hasFullHD(name) THEN "FHD"
    ELSE IF hasToken(name, {"hd", "720", "720p"}) THEN "HD"
    ELSE "SD"

\* C26: the tier detected in a name is the tier of the tokens it has,
\* letter case aside: 4K or UHD gives 4K, else FHD, FULL HD or 1080 gives
\* FHD, else HD or 720 gives HD, else SD; by detectQuality and by parseM3U
TierByTokens ==
    nm.pc = "seen"
    => /\ nm.quality = tierOf(nm.name)
       /\ nm.m3uQuality = tierOf(nm.name)

\* C27: the cleaned name of a name has none of the tokens tier detection
\* knows, 1080 and 720 included, so that names which differ in such tokens
\* only are cleaned to one name; by cleanName and by parseM3U
CleanedHasNoToken ==
    nm.pc = "seen"
    => /\ tierOf(nm.cleaned) = "SD"
       /\ tierOf(nm.m3uBaseName) = "SD"

(***************************************************************************)
(* parseM3U reading the lines of a playlist (addon.js lines 172-189 and    *)
(* 273): the loop that pairs #EXTINF lines with address lines.  A line is  *)
(* one of                                                                  *)
(*   "extinf"  - #EXTINF:<n> ...,<name>, which the expression of line 176  *)
(*               matches                                                   *)
(*   "badinf"  - a line that starts with #EXTINF: and which it does not    *)
(*               match (#EXTINF:-1.5,Name)                                 *)
(*   "comment" - another line that starts with #                           *)
(*   "blank"   - an empty line                                             *)
(*   "address" - any other line                                            *)
(* A record is [meta, address]: the numbers of the two lines it is made of.*)
(***************************************************************************)
MaxLines == 4    \* lines of one playlist

LineKinds == {"extinf", "badinf", "comment", "blank", "address"}

\* the playlists: every text of 1..MaxLines lines
Playlists == UNION {[1..n -> LineKinds] : n \in 1..MaxLines}

\* no currentItem
NoItem == 0

\* one turn of the loop, lines 172-189 and 273, on line i: the currentItem
\* (the number of its #EXTINF line) and the records after it
readLine(lines, i, currentItem, records) ==
    CASE lines[i] = "extinf" -> [currentItem |-> i, records |-> records]
      [] lines[i] = "badinf" -> [currentItem |-> currentItem, records |-> records]
      [] lines[i] \in {"comment", "blank"} \/ currentItem = NoItem ->
           [currentItem |-> currentItem, records |-> records]
      [] OTHER ->
           [currentItem |-> NoItem,
            records |-> Append(records, [meta |-> currentItem, address |-> i])]

\* what the reading of a playlist leaves alone
apartLines == <<cacheEnabled, redisClient, clock, ticks, buildPromiseCache,
                dataCache, redis, addons, calls, started, runs, finished, fd, mg,
                et, gd, sr, nm>>

\* parseM3U is called with the text of a playlist, lines 162-167
ReadPlaylist(lines) ==
    /\ pl.pc = "idle"
    /\ pl' = [pc |-> "reading", lines |-> lines, i |-> 1,
              currentItem |-> NoItem, records |-> <<>>]
    /\ UNCHANGED apartLines

\* the loop takes the next line, or ends after the last
ReadLine ==
    /\ pl.pc = "reading"
    /\ pl' = IF pl.i > Len(pl.lines) THEN [pl EXCEPT !.pc = "done"]
             ELSE LET after == readLine(pl.lines, pl.i, pl.currentItem, pl.records)
                  IN [pl EXCEPT !.i = @ + 1,
                                !.currentItem = after.currentItem,
                                !.records = after.records]
    /\ UNCHANGED apartLines

NextLines ==
    \/ \E lines \in Playlists : ReadPlaylist(lines)
    \/ ReadLine

SpecLines == Init /\ [][NextLines]_vars

(***************************************************************************)
(* Properties of the reading of a playlist                                 *)
(***************************************************************************)
\* the line is a metadata line: it starts with #EXTINF:
metadata(kind) == kind \in {"extinf", "badinf"}

\* the first line after line m that is neither blank nor a comment, 0
\* without one
nextLine(lines, m) ==
    LET rest == {k \in DOMAIN lines : k > m /\ lines[k] \notin {"comment", "blank"}}
    IN IF rest = {} THEN 0 ELSE CHOOSE k \in rest : \A l \in rest : k <= l

\* C29: every record made so far pairs a metadata line with the first
\* line after it that is neither blank nor comment, an address line, with
\* no other #EXTINF line in between; no address line is in two records;
\* and once the last line is read, a metadata line whose next such line is
\* another metadata line, or which has none, has made no record, while
\* every well-formed one followed by an address has made one
RecordsPairLines ==
    pl.pc # "idle"
    => /\ \A r \in DOMAIN pl.records :
             LET rec == pl.records[r]
             IN /\ rec.meta \in DOMAIN pl.lines
                /\ pl.lines[rec.meta] = "extinf"
                /\ rec.address = nextLine(pl.lines, rec.meta)
                /\ pl.lines[rec.address] = "address"
                /\ \A k \in (rec.meta + 1)..(rec.address - 1) :
                      ~metadata(pl.lines[k])
       /\ \A r, q \in DOMAIN pl.records :
             pl.records[r].address = pl.records[q].address => r = q
       /\ pl.pc = "done"
          => \A m \in DOMAIN pl.lines :
                pl.lines[m] = "extinf"
                => LET a == nextLine(pl.lines, m)
                   IN (\E r \in DOMAIN pl.records : pl.records[r].meta = m)
                      <=> (a # 0 /\ pl.lines[a] = "address")

(***************************************************************************)
(* Recovery: the process with an upstream that may fail the requests of     *)
(* the initial build and answers every later request.  The steps are the   *)
(* actions of the refresh above; a request that was sent is answered in    *)
(* the end (node-fetch is given a timeout), which is the fairness assumed. *)
(***************************************************************************)
RecoverConfig == Config("xtream", "alice", "pw1", TRUE, FALSE)

\* the core requests of a build answered, in any way
BuildCoreReturn(r, liveResp, vodResp) ==
    /\ runs[r].force
    /\ CoreReturn(r, liveResp, vodResp, Body(LiveCategories), Body(VodCategories))

\* the core requests of a later refresh answered, by a server that is up
RefreshCoreReturn(r) ==
    /\ ~runs[r].force
    /\ CoreReturn(r, Body(LiveList), Body(VodList), Body(LiveCategories),
                  Body(VodCategories))

NextRecover ==
    \/ CreateAddon(RecoverConfig)
    \/ \E a \in DOMAIN addons :
          \E answer \in RedisGetAnswers(addons[a].inst.cacheKey) :
             RedisGetReturn(a, answer)
    \/ \E a \in DOMAIN addons : CatalogRequest(a)
    \/ \E r \in DOMAIN runs :
          \E liveResp \in {NotOk, Body(LiveList)}, vodResp \in {Reject, Body(VodList)} :
             BuildCoreReturn(r, liveResp, vodResp)
    \/ \E r \in DOMAIN runs : RefreshCoreReturn(r)
    \/ \E r \in DOMAIN runs :
          SeriesReturn(r, Body(SeriesList), Body(SeriesCategories))
    \/ \E r \in DOMAIN runs : \E answer \in {"ok", "throw"} : RedisSetReturn(r, answer)

\* a refresh that began on the instance of addon a waits for an answer of
\* the server
awaitingAnswer(a) ==
    \E r \in DOMAIN runs :
       runs[r].addon = a /\ ~runs[r].force /\ runs[r].pc \in {"core", "series"}

\* every request of a refresh is answered in the end.  RefreshCoreReturn and
\* SeriesReturn are enabled exactly while a refresh awaits their answers,
\* so their weak fairness is that no addon has such a refresh for ever
FairRecover ==
    /\ \A a \in 1..MaxAddons : []<>~awaitingAnswer(a)
    /\ WF_vars(\E r \in DOMAIN runs : \E answer \in {"ok", "throw"} :
                  RedisSetReturn(r, answer))

SpecRecover == Init /\ [][NextRecover]_vars /\ FairRecover

(***************************************************************************)
(* Properties of recovery                                                  *)
(***************************************************************************)
\* the build of addon a is over, and its updateData(true) has failed: the
\* instance has no catalog and was never updated
failedBuild(a) ==
    /\ addons[a].pc = "built"
    /\ addons[a].inst.lastUpdate = 0
    /\ addons[a].inst.channels = <<>>
    /\ addons[a].inst.movies = <<>>
    /\ addons[a].inst.series = <<>>

\* a refresh that began on the never-updated instance of addon a is under
\* way
recovering(a) ==
    \E r \in DOMAIN runs :
       /\ runs[r].addon = a
       /\ ~runs[r].force
       /\ inFlight(runs[r])
       /\ runs[r].before.lastUpdate = 0

\* the instance of addon a has the fetched channels and a lastUpdate
recovered(a) ==
    /\ a \in DOMAIN addons
    /\ addons[a].inst.lastUpdate # 0
    /\ addons[a].inst.channels =
          liveChannels(addons[a].inst.config, LiveList, catMap(Body(LiveCategories)))

\* C30: a catalog request to an instance whose build has failed starts a
\* fetch, it is not skipped; and with the upstream answering, a fetch so
\* started leads to the instance having the fetched channels and a
\* lastUpdate
FailedBuildRecovers ==
    /\ [][\A a \in DOMAIN addons :
             (failedBuild(a) /\ CatalogRequest(a))
             => \E r \in DOMAIN runs' :
                   /\ runs'[r].addon = a
                   /\ ~runs'[r].force
                   /\ runs'[r].pc = "core"]_vars
    /\ \A a \in 1..MaxAddons :
          (a \in DOMAIN addons /\ recovering(a)) ~> recovered(a)

\* the refresh a catalog request started on a never-updated instance has
\* returned, and the instance has the fetched channels and a lastUpdate
FailedBuildRecoversWitness ==
    /\ finished.pc = "done"
    /\ ~finished.force
    /\ finished.fetched
    /\ finished.before.lastUpdate = 0
    /\ finished.before.channels = <<>>
    /\ recovered(finished.addon)

====
